---------------------------- MODULE Spec2Model ----------------------------
(***************************************************************************)
(* A model of the rustboy emulator core: the CPU fetch/execute loop        *)
(* (src/src/cpu.rs), the bus (src/src/interconnect.rs), the opcode decoder *)
(* (src/src/instruction.rs) and the bus-visible part of the picture unit,  *)
(* the timer and the sound registers.                                      *)
(*                                                                         *)
(* A machine value m is a record [cpu, ic, panic, overflow]:               *)
(*   cpu      the fields of struct Cpu                                     *)
(*   ic       the fields of struct Interconnect (ppu, sound, timer nested) *)
(*   panic    a panic!/expect/unwrap/index failure happened (every build)  *)
(*   overflow a checked integer operation overflowed: a panic in a build   *)
(*            with overflow checks, a wrap-around in a build without       *)
(* The methods of the program are operators from machine to machine.       *)
(* Byte arrays are sparse functions: offsets that are absent hold 0.       *)
(***************************************************************************)
EXTENDS Integers, Sequences, FiniteSets, TLC

VARIABLES
    cpu,      \* struct Cpu without its interconnect field
    ic,       \* struct Interconnect, owned by the Cpu
    fault,    \* "none", or "panic" once the program has aborted
    last,     \* the most recent call and what it returned or did
    hist,     \* the instructions executed so far, newest first, at most three
    charged,  \* the sum of all add_cycles amounts since construction
    clocks,   \* the number of step() calls made (main.rs counts them too)
    calls     \* the number of other calls made on the bus interface

vars == <<cpu, ic, fault, last, hist, charged, clocks, calls>>

(***************************************************************************)
(* Bounds of the model.                                                    *)
(***************************************************************************)
\* number of step() calls the driver makes in one run
MaxClocks == 80
\* number of stack or get_interrupt calls in one run of the call-level checks
MaxCalls == 3
\* number of step() calls in one run on the bus interface
MaxBusClocks == 2
\* number of instructions applied in one run of the arithmetic instructions
MaxAluCalls == 2
MaxFlagCalls == 4
MaxWordCalls == 1
MaxIncCalls == 2

(***************************************************************************)
(* Fixed-width integers.                                                   *)
(***************************************************************************)
Byte == 0..255

RECURSIVE BitAnd(_, _)
BitAnd(a, b) ==
    IF a = 0 \/ b = 0 THEN 0
    ELSE (IF a % 2 = 1 /\ b % 2 = 1 THEN 1 ELSE 0) + 2 * BitAnd(a \div 2, b \div 2)

RECURSIVE BitOr(_, _)
BitOr(a, b) ==
    IF a = 0 THEN b
    ELSE IF b = 0 THEN a
    ELSE (IF a % 2 = 1 \/ b % 2 = 1 THEN 1 ELSE 0) + 2 * BitOr(a \div 2, b \div 2)

RECURSIVE BitXor(_, _)
BitXor(a, b) ==
    IF a = 0 THEN b
    ELSE IF b = 0 THEN a
    ELSE (IF a % 2 # b % 2 THEN 1 ELSE 0) + 2 * BitXor(a \div 2, b \div 2)

\* !x on a u8
Not8(x) == 255 - x

\* (x as i8) as i16 as u16
SignExtend(x) == IF x >= 128 THEN 65536 - 256 + x ELSE x

\* u16::wrapping_add, u16::wrapping_sub
WrappingAdd16(a, b) == (a + b) % 65536
WrappingSub16(a, b) == (a - b + 65536) % 65536

\* a sparse byte array: absent offsets hold 0
Get(arr, i) == IF i \in DOMAIN arr THEN arr[i] ELSE 0
Set(arr, i, v) ==
    [j \in (DOMAIN arr \cup {i}) \ (IF v = 0 THEN {i} ELSE {}) |->
        IF j = i THEN v ELSE arr[j]]
Empty == [j \in {} |-> 0]

(***************************************************************************)
(* src/src/memory_map.rs                                                   *)
(***************************************************************************)
ROM_BANK0_START == 0
ROM_BANK0_END == 16384
SWITCH_ROM_BANK_START == 16384
SWITCH_ROM_BANK_END == 32768
VRAM_START == 32768
VRAM_END == 40960
SWITCH_RAM_BANK_START == 40960
SWITCH_RAM_BANK_END == 49152
SWITCH_RAM_BANK_LENGTH == SWITCH_RAM_BANK_END - SWITCH_RAM_BANK_START
INTERNAL_RAM_START == 49152
INTERNAL_RAM_END == 57344
ECHO_RAM_START == 57344
ECHO_RAM_END == 65024
SPRITE_MEM_START == 65024
SPRITE_MEM_END == 65184
IO_PORTS_START == 65280
IO_PORTS_END == 65356
INTERNAL_RAM2_START == 65408
INTERNAL_RAM2_END == 65535
INTERRUPT_REGISTER == 65535

\* The bank-control register ranges are used by interconnect.rs and
\* cartridge.rs but their definitions are not in memory_map.rs; they are
\* the conventional sub-ranges of the ROM address space.
ENABLE_RAM_BANK_START == 0
ENABLE_RAM_BANK_END == 8192
CHOOSE_ROM_BANK_START == 8192
CHOOSE_ROM_BANK_END == 16384
CHOOSE_RAM_BANK_START == 16384
CHOOSE_RAM_BANK_END == 24576
CHOOSE_MEMORY_MODE_START == 24576
CHOOSE_MEMORY_MODE_END == 32768

\* addresses named by literals in interconnect.rs
BOOT_OFF_ADDR == 65360
IF_ADDR == 65295

(***************************************************************************)
(* src/src/interconnect.rs: enum Interrupt.  The value is the priority and *)
(* the bit number in the two interrupt registers.                          *)
(***************************************************************************)
VBLANK == 0
LCDStatus == 1
TimerOverflow == 2
SerialTransfer == 3
Joypad == 4
\* Option::None of a byte or of an interrupt source
Nothing == -1
\* Option::None of a decoded instruction
None == "None"

\* Interrupt::from_u8
Interrupt_from_u8(i) == IF i \in VBLANK..Joypad THEN i ELSE Nothing

check_bit(val, b) == (val \div (2 ^ b)) % 2 = 1

(***************************************************************************)
(* src/src/ppu.rs: the registers and the mode state machine.  The frame    *)
(* buffers are write-only for the bus and are not part of the model.       *)
(***************************************************************************)
Ppu_new ==
    [LCD_control |-> 145, LCDC_status |-> 0, scy |-> 0, scx |-> 0, ly |-> 0,
     lyc |-> 0, bgp |-> 0, obp0 |-> 0, obp1 |-> 0, wy |-> 0, wx |-> 0,
     sprite_memory |-> Empty, vram |-> Empty,
     cycles |-> 0, state |-> "OAMSearch"]

\* LCDC_status with its two mode bits replaced by mode
SetMode(status, mode) == BitAnd(status, 252) + mode

\* Ppu::update whose VBlank arm returns to line 0 one line early
Ppu_update_short_vblank(m) ==
    LET p == m.ic.ppu IN
    IF p.cycles > 0
    THEN [m |-> [m EXCEPT !.ic.ppu.cycles = p.cycles - 1], vblank |-> FALSE]
    ELSE CASE p.state = "OAMSearch" ->
                [m |-> [m EXCEPT !.ic.ppu.cycles = 20,
                                 !.ic.ppu.state = "PixelTransfer"],
                 vblank |-> FALSE]
           [] p.state = "PixelTransfer" ->
                [m |-> [m EXCEPT !.ic.ppu.cycles = 43, !.ic.ppu.state = "HBlank"],
                 vblank |-> FALSE]
           [] p.state = "HBlank" ->
                [m |-> [m EXCEPT !.ic.ppu.cycles = 51,
                                 !.ic.ppu.ly = p.ly + 1,
                                 !.ic.ppu.state =
                                     IF p.ly + 1 = 144 THEN "VBlank" ELSE "OAMSearch"],
                 vblank |-> FALSE]
           [] p.state = "VBlank" ->
                [m |-> [m EXCEPT !.ic.ppu.cycles = 114,
                                 !.ic.ppu.ly = IF p.ly + 1 = 153 THEN 0 ELSE p.ly + 1,
                                 !.ic.ppu.state =
                                     IF p.ly + 1 = 153 THEN "OAMSearch" ELSE "VBlank"],
                 vblank |-> p.ly + 1 = 145]

\* Ppu::update: the machine after the call and whether a VBlank is signalled
Ppu_update(m) ==
    LET p == m.ic.ppu IN
    IF p.cycles > 0
    THEN [m |-> [m EXCEPT !.ic.ppu.cycles = p.cycles - 1], vblank |-> FALSE]
    ELSE CASE p.state = "OAMSearch" ->
                [m |-> [m EXCEPT !.ic.ppu.cycles = 20,
                                 !.ic.ppu.state = "PixelTransfer",
                                 !.ic.ppu.LCDC_status = BitOr(p.LCDC_status, 3)],
                 vblank |-> FALSE]
           [] p.state = "PixelTransfer" ->
                [m |-> [m EXCEPT !.ic.ppu.cycles = 43,
                                 !.ic.ppu.state = "HBlank",
                                 !.ic.ppu.LCDC_status = BitAnd(p.LCDC_status, 252)],
                 vblank |-> FALSE]
           [] p.state = "HBlank" ->
                LET ly == (p.ly + 1) % 256 IN
                [m |-> [m EXCEPT !.ic.ppu.cycles = 51,
                                 !.ic.ppu.ly = ly,
                                 !.ic.ppu.state =
                                     IF ly = 144 THEN "VBlank" ELSE "OAMSearch",
                                 !.ic.ppu.LCDC_status =
                                     IF ly = 144 THEN SetMode(p.LCDC_status, 1)
                                                 ELSE SetMode(p.LCDC_status, 2),
                                 !.overflow = m.overflow \/ p.ly = 255],
                 vblank |-> FALSE]
           [] p.state = "VBlank" ->
                LET ly1 == (p.ly + 1) % 256
                    ly == IF ly1 = 154 THEN 0 ELSE ly1 IN
                [m |-> [m EXCEPT !.ic.ppu.cycles = 114,
                                 !.ic.ppu.ly = ly,
                                 !.ic.ppu.state =
                                     IF ly1 = 154 THEN "OAMSearch" ELSE "VBlank",
                                 !.ic.ppu.LCDC_status =
                                     IF ly1 = 154 THEN SetMode(p.LCDC_status, 2)
                                                  ELSE p.LCDC_status,
                                 !.overflow = m.overflow \/ p.ly = 255],
                 vblank |-> ly = 145]

\* Ppu::read: Nothing when the address is not a picture-unit register
Ppu_read(p, address) ==
    CASE address = 65344 -> p.LCD_control
      [] address = 65345 -> p.LCDC_status
      [] address = 65346 -> p.scy
      [] address = 65347 -> p.scx
      [] address = 65348 -> p.ly
      [] address = 65349 -> p.lyc
      [] address = 65351 -> p.bgp
      [] address = 65352 -> p.obp0
      [] address = 65353 -> p.obp1
      [] address = 65354 -> p.wy
      [] address = 65355 -> p.wx
      [] OTHER -> Nothing

\* Ppu::write: the picture unit after the write and whether it handled it
Ppu_write(p, address, value) ==
    CASE address = 65344 -> [ppu |-> [p EXCEPT !.LCD_control = value], handled |-> TRUE]
      [] address = 65345 -> [ppu |-> [p EXCEPT !.LCDC_status = value], handled |-> TRUE]
      [] address = 65346 -> [ppu |-> [p EXCEPT !.scy = value], handled |-> TRUE]
      [] address = 65347 -> [ppu |-> [p EXCEPT !.scx = value], handled |-> TRUE]
      [] address = 65348 ->
            [ppu |-> [p EXCEPT !.ly = 154, !.state = "VBlank"], handled |-> TRUE]
      [] address = 65349 -> [ppu |-> [p EXCEPT !.lyc = value], handled |-> TRUE]
      [] address = 65351 -> [ppu |-> [p EXCEPT !.bgp = value], handled |-> TRUE]
      [] address = 65352 -> [ppu |-> [p EXCEPT !.obp0 = value], handled |-> TRUE]
      [] address = 65353 -> [ppu |-> [p EXCEPT !.obp1 = value], handled |-> TRUE]
      [] address = 65354 -> [ppu |-> [p EXCEPT !.wy = value], handled |-> TRUE]
      [] address = 65355 -> [ppu |-> [p EXCEPT !.wx = value], handled |-> TRUE]
      [] OTHER -> [ppu |-> p, handled |-> FALSE]

\* Ppu::disable_lcd, called by Ppu::turn_lcd_off
Ppu_turn_lcd_off(p) == [p EXCEPT !.LCD_control = BitAnd(p.LCD_control, 127)]

(***************************************************************************)
(* src/src/sound_subsystem.rs and src/src/timer.rs: register files.        *)
(***************************************************************************)
SoundRegs == {65297, 65298, 65299, 65300, 65316, 65317, 65318}
Sound_new == [a \in SoundRegs |-> 0]
Sound_read(s, address) == IF address \in SoundRegs THEN s[address] ELSE Nothing
Sound_write(s, address, value) ==
    IF address \in SoundRegs
    THEN [sound |-> [s EXCEPT ![address] = value], handled |-> TRUE]
    ELSE [sound |-> s, handled |-> FALSE]

Timer_new == [div |-> 0, tima |-> 0, tma |-> 0, tac |-> 0]
Timer_read(t, address) ==
    CASE address = 65284 -> t.div
      [] address = 65285 -> t.tima
      [] address = 65286 -> t.tma
      [] address = 65287 -> t.tac
      [] OTHER -> Nothing
Timer_write(t, address, value) ==
    CASE address = 65284 -> [timer |-> [t EXCEPT !.div = 0], handled |-> TRUE]
      [] address = 65285 -> [timer |-> [t EXCEPT !.tima = value], handled |-> TRUE]
      [] address = 65286 -> [timer |-> [t EXCEPT !.tma = value], handled |-> TRUE]
      [] address = 65287 -> [timer |-> [t EXCEPT !.tac = value], handled |-> TRUE]
      [] OTHER -> [timer |-> t, handled |-> FALSE]

(***************************************************************************)
(* src/src/interconnect.rs                                                 *)
(***************************************************************************)
\* a ROM or boot image: its length and its bytes (sparse, absent = 0)
Image(len, data) == [len |-> len, data |-> data]
\* Vec::get / indexing: Nothing when the index is out of range
ImageGet(img, i) == IF i < img.len THEN Get(img.data, i) ELSE Nothing

\* Interconnect::new
Interconnect_new(boot, rom) ==
    [rom |-> rom, boot |-> boot,
     internal_ram2 |-> Empty, ram_bank |-> Empty, internal_ram |-> Empty,
     rom_bank_nr |-> 1, ram_bank_nr |-> 0, memory_model |-> "ROM16M_RAM8K",
     ppu |-> Ppu_new, sound |-> Sound_new, timer |-> Timer_new,
     interrupt_flag |-> 0, interrupt_enable |-> 0,
     ram_bank_write_enable |-> TRUE, booting |-> TRUE]

\* the arm of write_mem for IO_PORTS_START..IO_PORTS_END
Interconnect_write_io(m, address, value) ==
    LET pw == Ppu_write(m.ic.ppu, address, value)
        sw == Sound_write(m.ic.sound, address, value)
        tw == Timer_write(m.ic.timer, address, value) IN
    IF pw.handled THEN [m EXCEPT !.ic.ppu = pw.ppu]
    ELSE IF sw.handled THEN [m EXCEPT !.ic.sound = sw.sound]
    ELSE IF tw.handled THEN [m EXCEPT !.ic.timer = tw.timer]
    ELSE IF address = IF_ADDR THEN [m EXCEPT !.ic.interrupt_flag = value]
    ELSE m

\* an echo window that ignores writes
write_echo_dropped(m, address, value) == m
\* the arm of write_mem for ECHO_RAM_START..ECHO_RAM_END
write_echo(m, address, value) ==
    [m EXCEPT !.ic.internal_ram = Set(@, address - ECHO_RAM_START, value)]

\* Interconnect::write_mem: the first matching arm wins
Interconnect_write_mem(m, address, value) ==
    CASE address >= ENABLE_RAM_BANK_START /\ address < ENABLE_RAM_BANK_END ->
            [m EXCEPT !.ic.ram_bank_write_enable = (value = 10)]
      [] address >= CHOOSE_MEMORY_MODE_START /\ address < CHOOSE_MEMORY_MODE_END ->
            [m EXCEPT !.ic.memory_model =
                 IF value % 2 = 1 THEN "ROM4M_RAM32K" ELSE "ROM16M_RAM8K"]
      [] address >= CHOOSE_ROM_BANK_START /\ address < CHOOSE_ROM_BANK_END ->
            [m EXCEPT !.ic.rom_bank_nr = (IF value = 0 THEN 1 ELSE value) % 32]
      [] address >= CHOOSE_RAM_BANK_START /\ address < CHOOSE_RAM_BANK_END ->
            [m EXCEPT !.ic.ram_bank_nr = value % 4]
      [] address = BOOT_OFF_ADDR ->
            [m EXCEPT !.ic.booting = FALSE]
      [] address >= VRAM_START /\ address < VRAM_END ->
            [m EXCEPT !.ic.ppu.vram = Set(@, address - VRAM_START, value)]
      [] address >= IO_PORTS_START /\ address < IO_PORTS_END ->
            Interconnect_write_io(m, address, value)
      [] address >= INTERNAL_RAM_START /\ address < INTERNAL_RAM_END ->
            [m EXCEPT !.ic.internal_ram = Set(@, address - INTERNAL_RAM_START, value)]
      [] address >= ECHO_RAM_START /\ address < ECHO_RAM_END ->
            write_echo(m, address, value)
      [] address >= INTERNAL_RAM2_START /\ address < INTERNAL_RAM2_END ->
            [m EXCEPT !.ic.internal_ram2 = Set(@, address - INTERNAL_RAM2_START, value)]
      [] address >= SWITCH_RAM_BANK_START /\ address < SWITCH_RAM_BANK_END ->
            [m EXCEPT !.ic.ram_bank =
                 Set(@, m.ic.ram_bank_nr * SWITCH_RAM_BANK_LENGTH
                        + (address - SWITCH_RAM_BANK_START), value)]
      [] address >= SPRITE_MEM_START /\ address < SPRITE_MEM_END ->
            [m EXCEPT !.ic.ppu.sprite_memory = Set(@, address - SPRITE_MEM_START, value)]
      [] address = INTERRUPT_REGISTER ->
            [m EXCEPT !.ic.interrupt_enable = value]
      [] address >= 65184 /\ address <= 65279 -> m
      [] address >= IO_PORTS_END /\ address <= 65407 /\ address # BOOT_OFF_ADDR -> m
      [] OTHER -> [m EXCEPT !.panic = TRUE]

\* the arm of read_mem for IO_PORTS_START..IO_PORTS_END
Interconnect_read_io(i, address) ==
    IF Ppu_read(i.ppu, address) # Nothing THEN Ppu_read(i.ppu, address)
    ELSE IF Sound_read(i.sound, address) # Nothing THEN Sound_read(i.sound, address)
    ELSE IF Timer_read(i.timer, address) # Nothing THEN Timer_read(i.timer, address)
    ELSE IF address = IF_ADDR THEN i.interrupt_flag
    ELSE 255

\* an overlay one byte short
BootOverlay_short(i, address) == i.booting /\ address < 255
\* the test of read_mem for the boot overlay
BootOverlay(i, address) == i.booting /\ address <= 255

\* Interconnect::read_mem: the byte read, or Nothing when the call panics
Interconnect_read_mem(i, address) ==
    IF BootOverlay(i, address) THEN ImageGet(i.boot, address)
    ELSE
    CASE address >= VRAM_START /\ address < VRAM_END ->
            Get(i.ppu.vram, address - VRAM_START)
      [] address >= IO_PORTS_START /\ address < IO_PORTS_END ->
            Interconnect_read_io(i, address)
      [] address >= ROM_BANK0_START /\ address < ROM_BANK0_END ->
            ImageGet(i.rom, address - ROM_BANK0_START)
      [] address >= SWITCH_ROM_BANK_START /\ address < SWITCH_ROM_BANK_END ->
            ImageGet(i.rom, i.rom_bank_nr * 16000 + (address - SWITCH_ROM_BANK_START))
      [] address >= INTERNAL_RAM_START /\ address < INTERNAL_RAM_END ->
            Get(i.internal_ram, address - INTERNAL_RAM_START)
      [] address >= ECHO_RAM_START /\ address < ECHO_RAM_END ->
            Get(i.internal_ram, address - ECHO_RAM_START)
      [] address >= INTERNAL_RAM2_START /\ address < INTERNAL_RAM2_END ->
            Get(i.internal_ram2, address - INTERNAL_RAM2_START)
      [] address >= SWITCH_RAM_BANK_START /\ address < SWITCH_RAM_BANK_END ->
            Get(i.ram_bank, i.ram_bank_nr * SWITCH_RAM_BANK_LENGTH
                            + (address - SWITCH_RAM_BANK_START))
      [] address >= SPRITE_MEM_START /\ address < SPRITE_MEM_END ->
            Get(i.ppu.sprite_memory, address - SPRITE_MEM_START)
      [] address = INTERRUPT_REGISTER -> 255
      [] address >= 65184 /\ address <= 65279 -> 255
      [] OTHER -> Nothing

\* the sources i of get_interrupt's loop that are requested and enabled
PendingEnabled(i) ==
    {n \in 0..4 : check_bit(i.interrupt_flag, n) /\ check_bit(i.interrupt_enable, n)}

Min(S) == CHOOSE x \in S : \A y \in S : x <= y

\* the scan of get_interrupt run from the highest source down
FirstPending_highest(S) == CHOOSE x \in S : \A y \in S : x >= y
\* the source get_interrupt's loop stops at
FirstPending(S) == Min(S)

\* Interconnect::get_interrupt: the machine after the call and the result
Interconnect_get_interrupt(m) ==
    LET S == PendingEnabled(m.ic) IN
    IF S = {} THEN [m |-> m, ret |-> Nothing]
    ELSE LET n == FirstPending(S) IN
         [m |-> [m EXCEPT !.ic.interrupt_flag = BitAnd(@, Not8(2 ^ n))],
          ret |-> Interrupt_from_u8(n)]

\* Interconnect::update
Interconnect_update(m) ==
    LET u == Ppu_update(m) IN
    IF u.vblank THEN [u.m EXCEPT !.ic.interrupt_flag = BitOr(@, 1)] ELSE u.m

\* Cartridge::read_mem, the two ROM arms: bank 0 is read as bank 1 and a bank
\* is SWITCH_ROM_BANK_LENGTH bytes long
Cartridge_read_mem(rom, rom_bank_nr, address) ==
    CASE address >= ROM_BANK0_START /\ address < ROM_BANK0_END ->
            ImageGet(rom, address - ROM_BANK0_START)
      [] address >= SWITCH_ROM_BANK_START /\ address < SWITCH_ROM_BANK_END ->
            LET bank_nr == IF rom_bank_nr = 0 THEN 1 ELSE rom_bank_nr IN
            ImageGet(rom, bank_nr * (SWITCH_ROM_BANK_END - SWITCH_ROM_BANK_START)
                          + (address - SWITCH_ROM_BANK_START))
      [] OTHER -> Nothing

(***************************************************************************)
(* src/src/cpu.rs: construction, cycle accounting, memory and stack access *)
(***************************************************************************)
Cpu_new ==
    [reg_a |-> 0, reg_b |-> 0, reg_c |-> 0, reg_d |-> 0, reg_e |-> 0,
     reg_f |-> 0, reg_h |-> 0, reg_l |-> 0, reg_sp |-> 0, reg_pc |-> 0,
     flag_z |-> FALSE, flag_n |-> FALSE, flag_h |-> FALSE, flag_c |-> FALSE,
     flag_ime |-> FALSE, flag_disabling_interrupts |-> FALSE,
     flag_enabling_interrupts |-> FALSE,
     cycles |-> 0, cpu_state |-> "On"]

\* the machine built by Cpu::new(Interconnect::new(boot, rom))
Machine(boot, rom) ==
    [cpu |-> Cpu_new, ic |-> Interconnect_new(boot, rom),
     panic |-> FALSE, overflow |-> FALSE]

u16_as_u8s_low_first(val) == <<val % 256, val \div 256>>

u16_as_u8s(val) == <<val \div 256, val % 256>>
u8s_as_u16(val) == val[1] * 256 + val[2]

\* a charge that is one cycle short
add_cycles_one_short(m, amount) == [m EXCEPT !.cpu.cycles = @ + amount - 1]

\* Cpu::add_cycles
add_cycles(m, amount) == [m EXCEPT !.cpu.cycles = @ + amount]

\* Cpu::read_mem: 4 cycles and a bus read; v is the byte read
Cpu_read_mem(m, address) ==
    LET v == Interconnect_read_mem(m.ic, address)
        m1 == add_cycles(m, 4) IN
    [m |-> [m1 EXCEPT !.panic = @ \/ v = Nothing], v |-> IF v = Nothing THEN 0 ELSE v]

\* Cpu::write_mem: 4 cycles and a bus write
Cpu_write_mem(m, address, value) ==
    Interconnect_write_mem(add_cycles(m, 4), address, value)

\* Cpu::read_byte: the byte at PC; PC moves past it
read_byte(m) ==
    LET r == Cpu_read_mem(add_cycles(m, 4), m.cpu.reg_pc) IN
    [m |-> [r.m EXCEPT !.cpu.reg_pc = (@ + 1) % 65536,
                       !.overflow = @ \/ m.cpu.reg_pc = 65535],
     v |-> r.v]

\* Cpu::read_nn: two bytes at PC as <<high, low>>, the low byte stored first
read_nn(m) ==
    LET first == read_byte(m)
        second == read_byte(first.m) IN
    [m |-> second.m, v |-> <<second.v, first.v>>]

\* Cpu::push_stack: write at SP, then SP moves down
push_stack(m, value) ==
    LET w == Cpu_write_mem(m, m.cpu.reg_sp, value) IN
    [w EXCEPT !.cpu.reg_sp = WrappingSub16(@, 1)]

\* Cpu::push_stack_u16: the high byte first
push_stack_u16(m, value) ==
    LET bytes == u16_as_u8s(value) IN
    push_stack(push_stack(m, bytes[1]), bytes[2])

\* Cpu::pop_stack: SP moves up, then read at SP
pop_stack(m) ==
    LET m1 == [m EXCEPT !.cpu.reg_sp = WrappingAdd16(@, 1)] IN
    Cpu_read_mem(m1, m1.cpu.reg_sp)

\* a pop that takes the first byte popped as the high byte
pop_stack_u16_swapped(m) ==
    LET second == pop_stack(m)
        first == pop_stack(second.m) IN
    [m |-> first.m, v |-> u8s_as_u16(<<second.v, first.v>>)]
\* Cpu::pop_stack_u16: the low byte first
pop_stack_u16(m) ==
    LET second == pop_stack(m)
        first == pop_stack(second.m) IN
    [m |-> first.m, v |-> u8s_as_u16(<<first.v, second.v>>)]

\* Cpu::af, bc, de, hl and their setters
af(m) == u8s_as_u16(<<m.cpu.reg_a, m.cpu.reg_f>>)
bc(m) == u8s_as_u16(<<m.cpu.reg_b, m.cpu.reg_c>>)
de(m) == u8s_as_u16(<<m.cpu.reg_d, m.cpu.reg_e>>)
hl(m) == u8s_as_u16(<<m.cpu.reg_h, m.cpu.reg_l>>)
set_af(m, val) == [m EXCEPT !.cpu.reg_a = u16_as_u8s(val)[1], !.cpu.reg_f = u16_as_u8s(val)[2]]
set_bc(m, val) == [m EXCEPT !.cpu.reg_b = u16_as_u8s(val)[1], !.cpu.reg_c = u16_as_u8s(val)[2]]
set_de(m, val) == [m EXCEPT !.cpu.reg_d = u16_as_u8s(val)[1], !.cpu.reg_e = u16_as_u8s(val)[2]]
set_hl(m, val) == [m EXCEPT !.cpu.reg_h = u16_as_u8s(val)[1], !.cpu.reg_l = u16_as_u8s(val)[2]]

\* Cpu::read_reg_r: register number 6 is the byte at (HL)
read_reg_r(m, r) ==
    CASE r = 0 -> [m |-> m, v |-> m.cpu.reg_b]
      [] r = 1 -> [m |-> m, v |-> m.cpu.reg_c]
      [] r = 2 -> [m |-> m, v |-> m.cpu.reg_d]
      [] r = 3 -> [m |-> m, v |-> m.cpu.reg_e]
      [] r = 4 -> [m |-> m, v |-> m.cpu.reg_h]
      [] r = 5 -> [m |-> m, v |-> m.cpu.reg_l]
      [] r = 6 -> Cpu_read_mem(m, hl(m))
      [] r = 7 -> [m |-> m, v |-> m.cpu.reg_a]
      [] OTHER -> [m |-> [m EXCEPT !.panic = TRUE], v |-> 0]

\* Cpu::write_reg_r
write_reg_r(m, r, value) ==
    CASE r = 0 -> [m EXCEPT !.cpu.reg_b = value]
      [] r = 1 -> [m EXCEPT !.cpu.reg_c = value]
      [] r = 2 -> [m EXCEPT !.cpu.reg_d = value]
      [] r = 3 -> [m EXCEPT !.cpu.reg_e = value]
      [] r = 4 -> [m EXCEPT !.cpu.reg_h = value]
      [] r = 5 -> [m EXCEPT !.cpu.reg_l = value]
      [] r = 6 -> Cpu_write_mem(m, hl(m), value)
      [] r = 7 -> [m EXCEPT !.cpu.reg_a = value]
      [] OTHER -> [m EXCEPT !.panic = TRUE]

\* u8::swap_bytes reverses the order of the bytes of the integer; a u8 is one
\* byte long, so the reversal of its byte sequence is the sequence itself
swap_bytes(value) ==
    LET bytes == <<value>>
        reversed == [i \in 1..Len(bytes) |-> bytes[Len(bytes) + 1 - i]] IN
    reversed[1]

\* the match of CB_Instruction::SWAP_n(n) in handle_cb_opcode
SWAP_n(m, n) ==
    LET r == read_reg_r(m, n)
        value == swap_bytes(r.v)
        f == [r.m EXCEPT !.cpu.flag_z = (value = 0), !.cpu.flag_n = FALSE,
                         !.cpu.flag_h = FALSE, !.cpu.flag_c = FALSE] IN
    write_reg_r(f, n, value)

\* Cpu::check_cc: NZ, Z, NC, C
check_cc(m, cc) ==
    CASE cc = 0 -> ~m.cpu.flag_z
      [] cc = 1 -> m.cpu.flag_z
      [] cc = 2 -> ~m.cpu.flag_c
      [] cc = 3 -> m.cpu.flag_c

\* vectors spaced 16 bytes apart
InterruptVector_spread(interrupt) == 64 + 16 * interrupt
\* the match of handle_interrupts: the vector of an interrupt source
InterruptVector(interrupt) ==
    CASE interrupt = VBLANK -> 64
      [] interrupt = LCDStatus -> 72
      [] interrupt = TimerOverflow -> 80
      [] interrupt = SerialTransfer -> 88
      [] interrupt = Joypad -> 96

\* Cpu::handle_interrupts: the machine after the call and the source taken
handle_interrupts(m) ==
    LET g == Interconnect_get_interrupt(m) IN
    IF g.ret = Nothing THEN [m |-> m, taken |-> Nothing]
    ELSE LET m1 == [g.m EXCEPT !.cpu.cpu_state = "On", !.cpu.flag_ime = FALSE]
             m2 == push_stack_u16(m1, m1.cpu.reg_pc) IN
         [m |-> [m2 EXCEPT !.cpu.reg_pc = InterruptVector(g.ret)], taken |-> g.ret]

(***************************************************************************)
(* src/src/instruction.rs: the opcode decoder.  A decoded instruction is   *)
(* the name of its variant; None is the unrecognised result.               *)
(***************************************************************************)
\* enum Instruction: the variants and their discriminants
InstructionDiscriminant ==
    "LD_nn_n" :> 46 @@ "LD_r1_r2" :> 64 @@ "LD_HL_ptr_r2" :> 112 @@
    "LD_n_A" :> 71 @@ "LD_A_n" :> 26 @@ "LD_n_nn" :> 49 @@
    "LD_Cptr_A" :> 226 @@ "LD_A_Cptr" :> 242 @@ "LDD_HLptr_A" :> 50 @@
    "LDD_A_HLptr" :> 58 @@ "LDI_A_HLptr" :> 42 @@ "LDI_HLptr_A" :> 34 @@
    "LDH_A_nptr" :> 240 @@ "LDH_nptr_A" :> 224 @@ "LD_SP_HL" :> 249 @@
    "LDHL_SP_n" :> 248 @@ "LD_nnptr_SP" :> 8 @@ "ADD_A_n" :> 135 @@
    "ADC_A_n" :> 136 @@ "ADD_HL_n" :> 9 @@ "ADD_SP_n" :> 232 @@
    "SUB_n" :> 144 @@ "SBC_A_n" :> 152 @@ "AND_n" :> 160 @@ "OR_n" :> 176 @@
    "XOR_n" :> 175 @@ "CP_n" :> 254 @@ "RLA" :> 23 @@ "INC_n" :> 60 @@
    "INC_nn" :> 35 @@ "DEC_n" :> 37 @@ "DEC_nn" :> 11 @@ "JP_nn" :> 195 @@
    "JP_HLptr" :> 233 @@ "JP_cc_nn" :> 194 @@ "JR_cc_n" :> 56 @@
    "JR_n" :> 24 @@ "CALL_cc_nn" :> 196 @@ "CALL_nn" :> 205 @@
    "RET" :> 201 @@ "RET_cc" :> 192 @@ "PUSH_nn" :> 245 @@ "POP_nn" :> 225 @@
    "CB" :> 203 @@ "NOP" :> 0 @@ "DI" :> 243

InstructionKinds == DOMAIN InstructionDiscriminant

\* Instruction::from_u8 (derive Primitive): the variant with that discriminant
Instruction_from_u8(byte) ==
    IF \E k \in InstructionKinds : InstructionDiscriminant[k] = byte
    THEN CHOOSE k \in InstructionKinds : InstructionDiscriminant[k] = byte
    ELSE None

\* the arms of parse, in source order: <<opcodes, variant>>
ParseArms == <<
    <<(168..175) \cup {238}, "XOR_n">>,
    <<{1, 17, 33, 49}, "LD_n_nn">>,
    <<(120..127) \cup {10, 26, 250, 62}, "LD_A_n">>,
    <<{71, 79, 87, 95, 103, 111, 119, 127, 2, 18, 234}, "LD_n_A">>,
    <<(112..117) \cup {54}, "LD_HL_ptr_r2">>,
    <<{6, 14, 22, 30, 38, 46}, "LD_nn_n">>,
    <<{32, 40, 48, 56}, "JR_cc_n">>,
    <<{4, 12, 20, 28, 36, 44, 52, 60}, "INC_n">>,
    <<(128..135) \cup {198}, "ADD_A_n">>,
    <<(136..143) \cup {206}, "ADC_A_n">>,
    <<{245, 197, 213, 229}, "PUSH_nn">>,
    <<{241, 193, 209, 225}, "POP_nn">>,
    <<(64..70) \cup (72..78) \cup (80..86) \cup (88..94) \cup (96..102) \cup (104..110), "LD_r1_r2">>,
    <<{5, 13, 21, 29, 37, 45, 53, 61}, "DEC_n">>,
    <<{11, 27, 43, 59}, "DEC_nn">>,
    <<{3, 19, 35, 51}, "INC_nn">>,
    <<{192, 200, 208, 216}, "RET_cc">>,
    <<{196, 204, 212, 220}, "CALL_cc_nn">>,
    <<(184..191) \cup {254}, "CP_n">>,
    <<{194, 202, 210, 218}, "JP_cc_nn">>,
    <<(144..151) \cup {214}, "SUB_n">>,
    <<(152..159) \cup {222}, "SBC_A_n">>,
    <<(160..167) \cup {230}, "AND_n">>,
    <<(176..183) \cup {246}, "OR_n">>,
    <<{9, 25, 41, 57}, "ADD_HL_n">> >>

\* parse with the XOR and OR rows of the ALU block exchanged
parse_or_before_xor(byte) ==
    LET hits == {i \in 1..Len(ParseArms) : byte \in ParseArms[i][1]} IN
    IF byte \in 168..175 THEN "OR_n"
    ELSE IF byte \in 176..183 THEN "XOR_n"
    ELSE IF hits # {} THEN ParseArms[Min(hits)][2] ELSE Instruction_from_u8(byte)

\* parse with the last arm that holds the byte winning
parse_last_arm(byte) ==
    LET hits == {i \in 1..Len(ParseArms) : byte \in ParseArms[i][1]} IN
    IF hits # {}
    THEN ParseArms[CHOOSE i \in hits : \A j \in hits : i >= j][2]
    ELSE Instruction_from_u8(byte)

\* parse: the first arm that holds the byte, else from_u8
parse(byte) ==
    LET hits == {i \in 1..Len(ParseArms) : byte \in ParseArms[i][1]} IN
    IF hits # {} THEN ParseArms[Min(hits)][2] ELSE Instruction_from_u8(byte)

\* enum CB_Instruction of instruction.rs; NoCb is parse_cb's None
NoCb == [kind |-> None, b |-> 0, r |-> 0]

\* parse_cb with the RL arm reduced by the wrong base
parse_cb_rebased(byte) ==
    CASE byte \in 64..127 ->
            [kind |-> "BIT_b_r", b |-> (byte - 64) \div 8, r |-> (byte - 64) % 8]
      [] byte \in 16..23 -> [kind |-> "RL_n", b |-> 0, r |-> byte - 24]
      [] byte \in 48..55 -> [kind |-> "SWAP_n", b |-> 0, r |-> byte - 48]
      [] OTHER -> NoCb
\* parse_cb: BIT b,r / RL r / SWAP r, else None
parse_cb(byte) ==
    CASE byte \in 64..127 ->
            [kind |-> "BIT_b_r", b |-> (byte - 64) \div 8, r |-> (byte - 64) % 8]
      [] byte \in 16..23 -> [kind |-> "RL_n", b |-> 0, r |-> byte - 16]
      [] byte \in 48..55 -> [kind |-> "SWAP_n", b |-> 0, r |-> byte - 48]
      [] OTHER -> NoCb

(***************************************************************************)
(* The decoder that cpu.rs is written against.  cpu.rs matches on variants *)
(* that carry operand selectors (LD_r1_n(r1), JP_cc_nn(cc), RST_n(n)) and  *)
(* on variants such as EI, HALT, STOP and RETI; the enum and the parse     *)
(* function of that shape are not in instruction.rs, so the opcode map is  *)
(* taken from section 4.1 of the specification and the standard opcode     *)
(* table.  a and b are the operand selectors.                              *)
(***************************************************************************)
Instr(kind, a, b) == [kind |-> kind, a |-> a, b |-> b]

decode(opcode) ==
    CASE opcode = 0 -> Instr("NOP", 0, 0)
      [] opcode = 16 -> Instr("STOP", 0, 0)
      [] opcode = 118 -> Instr("HALT", 0, 0)
      [] opcode = 243 -> Instr("DI", 0, 0)
      [] opcode = 251 -> Instr("EI", 0, 0)
      [] opcode \in (64..127) \ {118} -> Instr("LD_r1_r2", (opcode - 64) \div 8, opcode % 8)
      [] opcode \in {6, 14, 22, 30, 38, 46, 54, 62} -> Instr("LD_r1_n", opcode \div 8, 0)
      [] opcode \in {10, 26, 250} -> Instr("LD_A_nnptr", 0, 0)
      [] opcode \in {2, 18, 234} -> Instr("LD_nnptr_A", 0, 0)
      [] opcode = 242 -> Instr("LD_A_Cptr", 0, 0)
      [] opcode = 226 -> Instr("LD_Cptr_A", 0, 0)
      [] opcode = 224 -> Instr("LDH_nptr_A", 0, 0)
      [] opcode = 240 -> Instr("LDH_A_nptr", 0, 0)
      [] opcode \in {1, 17, 33, 49} -> Instr("LD_rr_nn", 0, 0)
      [] opcode = 249 -> Instr("LD_SP_HL", 0, 0)
      [] opcode = 8 -> Instr("LD_nn_SP", 0, 0)
      [] opcode \in {197, 213, 229, 245} -> Instr("PUSH_nn", 0, 0)
      [] opcode \in {193, 209, 225, 241} -> Instr("POP_nn", 0, 0)
      [] opcode \in {4, 12, 20, 28, 36, 44, 52, 60} -> Instr("INC_n", opcode \div 8, 0)
      [] opcode \in {5, 13, 21, 29, 37, 45, 53, 61} -> Instr("DEC_n", opcode \div 8, 0)
      [] opcode \in 128..135 -> Instr("ADD_n", opcode - 128, 0)
      [] opcode = 198 -> Instr("ADD_n", 8, 0)
      [] opcode = 39 -> Instr("DAA", 0, 0)
      [] opcode \in {3, 19, 35, 51} -> Instr("INC_nn", opcode \div 16, 0)
      [] opcode \in {11, 27, 43, 59} -> Instr("DEC_nn", opcode \div 16, 0)
      [] opcode = 232 -> Instr("ADD_SP_n", 0, 0)
      [] opcode \in 144..151 -> Instr("SUB_n", opcode - 144, 0)
      [] opcode = 214 -> Instr("SUB_n", 8, 0)
      [] opcode \in 152..159 -> Instr("SBC_n", opcode - 152, 0)
      [] opcode = 222 -> Instr("SBC_n", 8, 0)
      [] opcode = 195 -> Instr("JP_nn", 0, 0)
      [] opcode \in {194, 202, 210, 218} -> Instr("JP_cc_nn", (opcode - 192) \div 8, 0)
      [] opcode = 233 -> Instr("JP_HLptr", 0, 0)
      [] opcode = 24 -> Instr("JR_n", 0, 0)
      [] opcode \in {32, 40, 48, 56} -> Instr("JR_cc_n", (opcode - 32) \div 8, 0)
      [] opcode = 205 -> Instr("CALL_nn", 0, 0)
      [] opcode \in {196, 204, 212, 220} -> Instr("CALL_cc_nn", (opcode - 192) \div 8, 0)
      [] opcode \in {199, 207, 215, 223, 231, 239, 247, 255} -> Instr("RST_n", opcode - 199, 0)
      [] opcode = 201 -> Instr("RET", 0, 0)
      [] opcode \in {192, 200, 208, 216} -> Instr("RET_cc", (opcode - 192) \div 8, 0)
      [] opcode = 217 -> Instr("RETI", 0, 0)
      [] opcode \in {211, 219, 221, 227, 228, 235, 236, 237, 244, 252, 253} ->
            Instr(None, 0, 0)
      [] OTHER -> Instr("Other", 0, 0)

\* the variants whose execution is part of the model; a run stops in front
\* of any other instruction (the arithmetic, rotate and CB families)
Modelled(opcode) == decode(opcode).kind # "Other"

(***************************************************************************)
(* src/src/cpu.rs: the arms of the match in do_next_instrution.  m is the  *)
(* machine after the opcode fetch and the add_cycles(4) that follows it.   *)
(***************************************************************************)
\* the address operand of LD A,(BC) / LD A,(DE) / LD A,(nn) and their stores
AddressOperand(m, opcode) ==
    CASE opcode \in {10, 2} -> [m |-> m, v |-> bc(m)]
      [] opcode \in {26, 18} -> [m |-> m, v |-> de(m)]
      [] opcode \in {250, 234} ->
            LET nn == read_nn(m) IN [m |-> nn.m, v |-> u8s_as_u16(nn.v)]

\* LD_rr_nn, POP_nn: store a 16-bit value in the pair the opcode names
SetPair(m, opcode, value) ==
    CASE opcode \in {1, 193} -> set_bc(m, value)
      [] opcode \in {17, 209} -> set_de(m, value)
      [] opcode \in {33, 225} -> set_hl(m, value)
      [] opcode = 49 -> [m EXCEPT !.cpu.reg_sp = value]
      [] opcode = 241 -> set_af(m, value)

\* PUSH_nn: the pair the opcode names
PairOperand(m, opcode) ==
    CASE opcode = 245 -> af(m)
      [] opcode = 197 -> bc(m)
      [] opcode = 213 -> de(m)
      [] opcode = 229 -> hl(m)

\* CALL_nn and the taken CALL_cc_nn
CallTo(m, nn) == [push_stack_u16(m, m.cpu.reg_pc) EXCEPT !.cpu.reg_pc = nn]

\* RET, RETI and the taken RET_cc
ReturnFrom(m) == LET a == pop_stack_u16(m) IN [a.m EXCEPT !.cpu.reg_pc = a.v]

\* JR_n and the taken JR_cc_n: n is the offset byte
JumpRelative(m, n) == [m EXCEPT !.cpu.reg_pc = WrappingAdd16(@, SignExtend(n))]

\* ADD_n with the half carry taken from bit 3 of the carry bits
ADD_n_half_from_bit3(m, n) ==
    LET operand == IF n = 8 THEN read_byte(m) ELSE read_reg_r(m, n)
        result == m.cpu.reg_a + operand.v
        carrybits == BitXor(BitXor(m.cpu.reg_a, operand.v), result % 256)
                     + (result \div 256) * 256 IN
    [operand.m EXCEPT !.cpu.reg_a = result % 256,
                      !.cpu.flag_z = (result % 256 = 0),
                      !.cpu.flag_n = FALSE,
                      !.cpu.flag_c = ((carrybits \div 256) % 2 = 1),
                      !.cpu.flag_h = ((carrybits \div 8) % 2 = 1)]

\* the arm of Instruction::SUB_n(n); result is an i16 and carrybits is
\* (A ^ n) ^ result on its 16 bits
SUB_n(m, n) ==
    LET operand == IF n = 8 THEN read_byte(m) ELSE read_reg_r(m, n)
        result == m.cpu.reg_a - operand.v
        carrybits == BitXor(BitXor(m.cpu.reg_a, operand.v), result % 65536) IN
    [operand.m EXCEPT !.cpu.reg_a = result % 256,
                      !.cpu.flag_z = (result % 256 = 0),
                      !.cpu.flag_n = TRUE,
                      !.cpu.flag_h = ((carrybits \div 16) % 2 = 1),
                      !.cpu.flag_c = ((carrybits \div 256) % 2 = 1)]

\* the arm of Instruction::SBC_n(n): the four flags are assigned, reg_a is not
SBC_n(m, n) ==
    LET operand == IF n = 8 THEN read_byte(m) ELSE read_reg_r(m, n)
        carry == IF m.cpu.flag_c THEN 1 ELSE 0
        result == m.cpu.reg_a - operand.v - carry IN
    [operand.m EXCEPT !.cpu.flag_z = (result % 256 = 0),
                      !.cpu.flag_n = TRUE,
                      !.cpu.flag_c = (result < 0),
                      !.cpu.flag_h = ((m.cpu.reg_a % 16) - (operand.v % 16) - carry < 0)]

\* the arm of Instruction::ADD_SP_n: the operand byte is sign-extended to a
\* u16 and added with the checked `+` of u16
ADD_SP_n(m) ==
    LET operand == read_byte(m)
        n == SignExtend(operand.v)
        sum == m.cpu.reg_sp + n
        result == sum % 65536
        carrybits == BitXor(BitXor(m.cpu.reg_sp, n), result) IN
    add_cycles([operand.m EXCEPT !.cpu.flag_z = FALSE,
                                 !.cpu.flag_n = FALSE,
                                 !.cpu.flag_h = ((carrybits \div 16) % 2 = 1),
                                 !.cpu.flag_c = ((carrybits \div 256) % 2 = 1),
                                 !.cpu.reg_sp = result,
                                 !.overflow = @ \/ sum > 65535], 8)

\* INC_nn that assigns Zero from the result, as the 8-bit INC_n does
INC_nn_sets_zero(m, nn) ==
    LET value == CASE nn = 0 -> bc(m) [] nn = 1 -> de(m)
                   [] nn = 2 -> hl(m) [] nn = 3 -> m.cpu.reg_sp
        result == (value + 1) % 65536
        o == [m EXCEPT !.overflow = @ \/ value = 65535,
                       !.cpu.flag_z = (result = 0)] IN
    CASE nn = 0 -> set_bc(o, result)
      [] nn = 1 -> set_de(o, result)
      [] nn = 2 -> set_hl(o, result)
      [] nn = 3 -> [o EXCEPT !.cpu.reg_sp = result]

\* the match of Instruction::INC_nn(nn): BC, DE, HL or SP plus 1 with the
\* checked `+` of u16
INC_nn(m, nn) ==
    LET value == CASE nn = 0 -> bc(m) [] nn = 1 -> de(m)
                   [] nn = 2 -> hl(m) [] nn = 3 -> m.cpu.reg_sp
        result == (value + 1) % 65536
        o == [m EXCEPT !.overflow = @ \/ value = 65535] IN
    CASE nn = 0 -> set_bc(o, result)
      [] nn = 1 -> set_de(o, result)
      [] nn = 2 -> set_hl(o, result)
      [] nn = 3 -> [o EXCEPT !.cpu.reg_sp = result]

\* the match of Instruction::DEC_nn(nn): minus 1 with the checked `-` of u16
DEC_nn(m, nn) ==
    LET value == CASE nn = 0 -> bc(m) [] nn = 1 -> de(m)
                   [] nn = 2 -> hl(m) [] nn = 3 -> m.cpu.reg_sp
        result == (value + 65535) % 65536
        o == [m EXCEPT !.overflow = @ \/ value = 0] IN
    CASE nn = 0 -> set_bc(o, result)
      [] nn = 1 -> set_de(o, result)
      [] nn = 2 -> set_hl(o, result)
      [] nn = 3 -> [o EXCEPT !.cpu.reg_sp = result]

\* the arm of Instruction::ADD_n(n): n = 8 names the immediate byte, else a
\* register; carrybits is (A ^ n) ^ result on 16 bits
ADD_n(m, n) ==
    LET operand == IF n = 8 THEN read_byte(m) ELSE read_reg_r(m, n)
        result == m.cpu.reg_a + operand.v
        carrybits == BitXor(BitXor(m.cpu.reg_a, operand.v), result % 256)
                     + (result \div 256) * 256 IN
    [operand.m EXCEPT !.cpu.reg_a = result % 256,
                      !.cpu.flag_z = (result % 256 = 0),
                      !.cpu.flag_n = FALSE,
                      !.cpu.flag_c = ((carrybits \div 256) % 2 = 1),
                      !.cpu.flag_h = ((carrybits \div 16) % 2 = 1)]

\* the arm of Instruction::DAA
DAA(m) ==
    LET value == m.cpu.reg_a
        low == m.cpu.flag_h \/ (~m.cpu.flag_n /\ value % 16 > 9)
        carry == IF low THEN FALSE ELSE m.cpu.flag_c
        high == carry \/ (~m.cpu.flag_n /\ value > 159)
        correction == (IF low THEN 6 ELSE 0) + (IF high THEN 96 ELSE 0)
        signed == IF m.cpu.flag_n THEN 255 - correction ELSE correction
        result == (value + signed) % 256 IN
    [m EXCEPT !.cpu.reg_a = result,
              !.cpu.flag_c = (IF high THEN TRUE ELSE carry),
              !.cpu.flag_z = (result = 0),
              !.cpu.flag_h = FALSE]

\* an EI that takes effect at once
EI_immediate(m) == [m EXCEPT !.cpu.flag_ime = TRUE]
\* the arm of Instruction::EI
EI(m) == [m EXCEPT !.cpu.flag_enabling_interrupts = TRUE]

Execute(m, opcode, instr) ==
    LET k == instr.kind IN
    CASE k = "NOP" -> m
      [] k = "HALT" -> [m EXCEPT !.cpu.cpu_state = "OffUntilInterrupt"]
      [] k = "STOP" ->
            LET byte == read_byte(m) IN
            [byte.m EXCEPT !.cpu.cpu_state = "OffUntilButtonPress",
                           !.ic.ppu = Ppu_turn_lcd_off(@)]
      [] k = "DI" -> [m EXCEPT !.cpu.flag_disabling_interrupts = TRUE]
      [] k = "EI" -> EI(m)
      [] k = "LD_r1_r2" ->
            LET value == read_reg_r(m, instr.b) IN write_reg_r(value.m, instr.a, value.v)
      [] k = "LD_r1_n" ->
            LET value == read_byte(m) IN write_reg_r(value.m, instr.a, value.v)
      [] k = "LD_A_nnptr" ->
            LET address == AddressOperand(m, opcode)
                value == Cpu_read_mem(address.m, address.v) IN
            [value.m EXCEPT !.cpu.reg_a = value.v]
      [] k = "LD_nnptr_A" ->
            LET address == AddressOperand(m, opcode) IN
            Cpu_write_mem(address.m, address.v, m.cpu.reg_a)
      [] k = "LD_A_Cptr" ->
            LET value == Cpu_read_mem(m, 65280 + m.cpu.reg_c) IN
            [value.m EXCEPT !.cpu.reg_a = value.v]
      [] k = "LD_Cptr_A" -> Cpu_write_mem(m, 65280 + m.cpu.reg_c, m.cpu.reg_a)
      [] k = "LDH_nptr_A" ->
            LET byte == read_byte(m) IN
            Cpu_write_mem(byte.m, 65280 + byte.v, m.cpu.reg_a)
      [] k = "LDH_A_nptr" ->
            LET byte == read_byte(m)
                value == Cpu_read_mem(byte.m, 65280 + byte.v) IN
            [value.m EXCEPT !.cpu.reg_a = value.v]
      [] k = "LD_rr_nn" ->
            LET value == read_nn(m) IN SetPair(value.m, opcode, u8s_as_u16(value.v))
      [] k = "LD_SP_HL" -> add_cycles([m EXCEPT !.cpu.reg_sp = hl(m)], 4)
      [] k = "LD_nn_SP" ->
            LET nn == read_nn(m) IN
            add_cycles([nn.m EXCEPT !.cpu.reg_sp = u8s_as_u16(nn.v)], 8)
      [] k = "PUSH_nn" -> add_cycles(push_stack_u16(m, PairOperand(m, opcode)), 12)
      [] k = "POP_nn" ->
            LET value == pop_stack_u16(m) IN
            add_cycles(SetPair(value.m, opcode, value.v), 8)
      [] k = "INC_n" ->
            LET n == read_reg_r(m, instr.a)
                result == (n.v + 1) % 256 IN
            write_reg_r([n.m EXCEPT !.cpu.flag_z = (result = 0),
                                    !.cpu.flag_n = FALSE,
                                    !.cpu.flag_h = (result % 16 = 0)],
                        instr.a, result)
      [] k = "DEC_n" ->
            LET n == read_reg_r(m, instr.a)
                result == (n.v + 255) % 256 IN
            write_reg_r([n.m EXCEPT !.cpu.flag_z = (result = 0),
                                    !.cpu.flag_n = TRUE,
                                    !.cpu.flag_h = (result % 16 = 15)],
                        instr.a, result)
      [] k = "ADD_n" -> ADD_n(m, instr.a)
      [] k = "DAA" -> DAA(m)
      [] k = "INC_nn" -> add_cycles(INC_nn(m, instr.a), 4)
      [] k = "DEC_nn" -> add_cycles(DEC_nn(m, instr.a), 4)
      [] k = "ADD_SP_n" -> ADD_SP_n(m)
      [] k = "SUB_n" -> SUB_n(m, instr.a)
      [] k = "SBC_n" -> SBC_n(m, instr.a)
      [] k = "JP_nn" ->
            LET address == read_nn(m) IN
            [address.m EXCEPT !.cpu.reg_pc = u8s_as_u16(address.v)]
      [] k = "JP_cc_nn" ->
            LET address == read_nn(m) IN
            IF check_cc(address.m, instr.a)
            THEN [address.m EXCEPT !.cpu.reg_pc = u8s_as_u16(address.v)]
            ELSE address.m
      [] k = "JP_HLptr" -> [m EXCEPT !.cpu.reg_pc = hl(m)]
      [] k = "JR_n" ->
            LET n == read_byte(m) IN add_cycles(JumpRelative(n.m, n.v), 4)
      [] k = "JR_cc_n" ->
            LET n == read_byte(m) IN
            add_cycles(IF check_cc(n.m, instr.a) THEN JumpRelative(n.m, n.v) ELSE n.m, 4)
      [] k = "CALL_nn" ->
            LET nn == read_nn(m) IN add_cycles(CallTo(nn.m, u8s_as_u16(nn.v)), 8)
      [] k = "CALL_cc_nn" ->
            LET nn == read_nn(m) IN
            add_cycles(IF check_cc(nn.m, instr.a)
                       THEN CallTo(nn.m, u8s_as_u16(nn.v)) ELSE nn.m, 8)
      [] k = "RST_n" -> add_cycles(CallTo(m, instr.a), 28)
      [] k = "RET" -> add_cycles(ReturnFrom(m), 4)
      [] k = "RET_cc" ->
            add_cycles(IF check_cc(m, instr.a) THEN ReturnFrom(m) ELSE m, 4)
      [] k = "RETI" -> add_cycles([ReturnFrom(m) EXCEPT !.cpu.flag_ime = TRUE], 8)

\* Cpu::do_next_instrution: fetch, decode, execute.  An unrecognised opcode
\* returns after the fetch.
do_next_instrution(m) ==
    LET opcode == read_byte(m)
        instr == decode(opcode.v) IN
    IF instr.kind = None THEN opcode.m
    ELSE Execute(add_cycles(opcode.m, 4), opcode.v, instr)

\* the latch part of step with the DI latch cleared but IME left as it is
ApplyLatches_keeps_ime(m) ==
    LET m1 == [m EXCEPT !.cpu.flag_disabling_interrupts = FALSE] IN
    IF m1.cpu.flag_enabling_interrupts
    THEN [m1 EXCEPT !.cpu.flag_enabling_interrupts = FALSE, !.cpu.flag_ime = TRUE]
    ELSE m1

\* the interrupt-latch part of step: a DI or EI executed earlier takes effect
ApplyLatches(m) ==
    LET m1 == IF m.cpu.flag_disabling_interrupts
              THEN [m EXCEPT !.cpu.flag_disabling_interrupts = FALSE,
                             !.cpu.flag_ime = FALSE]
              ELSE m IN
    IF m1.cpu.flag_enabling_interrupts
    THEN [m1 EXCEPT !.cpu.flag_enabling_interrupts = FALSE, !.cpu.flag_ime = TRUE]
    ELSE m1

\* whether step calls handle_interrupts
MayDispatch(c) == c.flag_ime /\ c.cpu_state \in {"On", "OffUntilInterrupt"}

\* step with the latches handled before the cycle-burn check
step_latches_first(m) ==
    LET u == ApplyLatches(Interconnect_update(m)) IN
    IF u.cpu.cycles > 0
    THEN [m |-> [u EXCEPT !.cpu.cycles = @ - 4], path |-> "burn",
          taken |-> Nothing, at_dispatch |-> u, opcode |-> 0]
    ELSE LET h == IF MayDispatch(u.cpu) THEN handle_interrupts(u)
                  ELSE [m |-> u, taken |-> Nothing] IN
         IF h.m.cpu.cpu_state # "On"
         THEN [m |-> h.m, path |-> "wait", taken |-> h.taken,
               at_dispatch |-> h.m, opcode |-> 0]
         ELSE [m |-> do_next_instrution(h.m), path |-> "instr", taken |-> h.taken,
               at_dispatch |-> h.m, opcode |-> read_byte(h.m).v]

\* Cpu::step.  path names the way taken through it:
\*   "burn"  cycles were owed, 4 of them are paid
\*   "wait"  the CPU is halted or stopped and stays so
\*   "instr" an instruction was fetched
\* taken is the interrupt dispatched (None if none) and at_dispatch the CPU
\* and the bus as handle_interrupts left them.
step(m) ==
    LET u == Interconnect_update(m) IN
    IF u.cpu.cycles > 0
    THEN [m |-> [u EXCEPT !.cpu.cycles = @ - 4], path |-> "burn",
          taken |-> Nothing, at_dispatch |-> u, opcode |-> 0]
    ELSE LET h == IF MayDispatch(u.cpu) THEN handle_interrupts(u)
                  ELSE [m |-> u, taken |-> Nothing] IN
         IF h.m.cpu.cpu_state # "On"
         THEN [m |-> h.m, path |-> "wait", taken |-> h.taken,
               at_dispatch |-> h.m, opcode |-> 0]
         ELSE LET l == ApplyLatches(h.m) IN
              [m |-> do_next_instrution(l), path |-> "instr", taken |-> h.taken,
               at_dispatch |-> h.m, opcode |-> read_byte(l).v]

(***************************************************************************)
(* Programs.  The run of the emulator is decided by the two images it is   *)
(* constructed with.  A program is a preamble that loads SP, the interrupt *)
(* enable register and A, followed by three instructions of a menu; every  *)
(* other byte is 0 (NOP) and the five interrupt vectors hold RETI.         *)
(***************************************************************************)
\* the bytes of seq placed at base, as a sparse array
Place(seq, base) ==
    [a \in {base + i - 1 : i \in {j \in 1..Len(seq) : seq[j] # 0}} |-> seq[a - base + 1]]

\* RETI at 0x40, 0x48, 0x50, 0x58 and 0x60
Handlers == [a \in {64, 72, 80, 88, 96} |-> 217]

\* EI, DI, HALT, NOP, LDH (0x0F),A (request the interrupts in A), STOP 0,
\* and the undefined opcode 0xD3
Menu == {<<251>>, <<243>>, <<118>>, <<0>>, <<224, 15>>, <<16, 0>>, <<211>>}

\* <<SP, interrupt enable, A>>: every source once as the first requested and
\* enabled one, two sources at once, a request that is not enabled, bits
\* that name no source, and stacks outside RAM
Setups ==
    {<<65534, 31, 5>>, <<65534, 31, 2>>, <<65534, 28, 31>>, <<65534, 24, 8>>,
     <<65534, 16, 16>>, <<65534, 4, 1>>, <<65534, 224, 224>>,
     <<57344, 1, 1>>, <<0, 3, 1>>, <<65408, 1, 1>>, <<65296, 4, 4>>}

\* LD SP,sp; LD A,ie; LDH (0xFF),A; LD A,a
Preamble(setup) ==
    <<49, setup[1] % 256, setup[1] \div 256, 62, setup[2], 224, 255, 62, setup[3]>>

ProgramImage(setup, body) ==
    Image(256, Place(Preamble(setup) \o body[1] \o body[2] \o body[3], 0) @@ Handlers)

Programs == {ProgramImage(s, b) : s \in Setups, b \in Menu \X Menu \X Menu}

\* the cartridge of the reference scenario: NOP; JP 0x0150
ScenarioRom == Image(32768, Place(<<0, 195, 80, 1>>, 0) @@ Handlers)

(***************************************************************************)
(* The emulator run: main.rs constructs the machine and calls step() in a  *)
(* loop.                                                                   *)
(***************************************************************************)
NoCall == [op |-> "new"]

\* what a step leaves on record: the CPU and the interrupt registers as they
\* were before the call (pre) and as handle_interrupts left them (at), with
\* the word a pop_stack_u16 would have returned at that point
Snapshot(m) ==
    [reg_pc |-> m.cpu.reg_pc, reg_sp |-> m.cpu.reg_sp,
     cpu_state |-> m.cpu.cpu_state, flag_ime |-> m.cpu.flag_ime,
     cycles |-> m.cpu.cycles,
     interrupt_flag |-> m.ic.interrupt_flag,
     interrupt_enable |-> m.ic.interrupt_enable,
     pop |-> pop_stack_u16(m).v]

\* a checked overflow aborts a build with overflow checks and wraps in one
\* without; a panic aborts every build
Outcomes(m) ==
    IF m.panic THEN {"panic"}
    ELSE IF m.overflow THEN {"panic", "none"}
    ELSE {"none"}

Current == [cpu |-> cpu, ic |-> ic, panic |-> FALSE, overflow |-> FALSE]

\* the instruction history after a step
Recorded(s, l) ==
    IF s.path = "instr"
    THEN SubSeq(<<[kind |-> decode(s.opcode).kind, ime |-> l.cpu.flag_ime]>> \o hist,
                1, IF Len(hist) < 3 THEN Len(hist) + 1 ELSE 3)
    ELSE hist

\* one call of step() by the driver
StepBody ==
    /\ fault = "none"
    /\ \E s \in {step(Current)}, u \in {Interconnect_update(Current)} :
       /\ s.path = "instr" => Modelled(s.opcode)
       /\ cpu' = s.m.cpu
       /\ ic' = s.m.ic
       /\ fault' \in Outcomes(s.m)
       /\ last' = [op |-> "step", path |-> s.path, taken |-> s.taken,
                   opcode |-> s.opcode,
                   kind |-> IF s.path = "instr" THEN decode(s.opcode).kind ELSE "-",
                   pre |-> Snapshot(Current), at |-> Snapshot(s.at_dispatch)]
       /\ hist' = Recorded(s, ApplyLatches(s.at_dispatch))
       /\ charged' = charged + (s.m.cpu.cycles - u.cpu.cycles)
                             + (IF s.path = "burn" THEN 4 ELSE 0)
    /\ clocks' = clocks + 1
    /\ UNCHANGED calls

Step == clocks < MaxClocks /\ StepBody

Init ==
    /\ \E boot \in Programs :
          /\ cpu = Cpu_new
          /\ ic = Interconnect_new(boot, ScenarioRom)
    /\ fault = "none"
    /\ last = NoCall
    /\ hist = <<>>
    /\ charged = 0
    /\ clocks = 0
    /\ calls = 0

Next == Step

Spec == Init /\ [][Next]_vars

(***************************************************************************)
(* The reference scenario: the emulator constructed with a cartridge and   *)
(* the boot overlay switched off by a write to 0xFF50 before the first     *)
(* step.                                                                   *)
(***************************************************************************)
\* the cartridges: the reference scenario and the programs of one setup
Roms ==
    {ScenarioRom} \cup
    {[ProgramImage(<<65534, 31, 5>>, b) EXCEPT !.len = 32768] : b \in Menu \X Menu \X Menu}

BlankBoot == Image(256, Empty)

InitRom ==
    /\ \E rom \in Roms :
          LET m == Interconnect_write_mem(Machine(BlankBoot, rom), BOOT_OFF_ADDR, 1) IN
          /\ cpu = m.cpu
          /\ ic = m.ic
    /\ fault = "none"
    /\ last = NoCall
    /\ hist = <<>>
    /\ charged = 0
    /\ clocks = 0
    /\ calls = 0

SpecRom == InitRom /\ [][Step]_vars

(***************************************************************************)
(* The bus interface called directly: write_mem, read_mem and step() in    *)
(* any order, on a few addresses of every kind.                            *)
(***************************************************************************)
\* 0xFF50, work RAM and its echo (offsets 0x10 and 0x1DFF), the two
\* interrupt registers, a bank register, the unmapped neighbours of 0xFF50,
\* 0x0050, 0xFEA0 (the first byte after sprite memory), and 0xFF46
WriteAddrs == {65360, 49168, 57360, 56831, 65023, 65295, 65535, 0, 65359, 65361, 80, 65184,
               65350}
WriteVals == {0, 1, 171}
\* the overlay window (first and last byte), the first byte after it, the
\* echo pairs, the interrupt registers, 0xFEA0 and 0xFF4F
ReadAddrs == {0, 16, 255, 256, 49168, 57360, 56831, 65023, 65295, 65535, 65184, 65359}

\* a boot image and a cartridge that differ in every byte that is read; the
\* boot image starts with LDH (0x50),A and the cartridge with LD (0xC010),A
BusBoot == Image(256, Place(<<224, 80>>, 0) @@ (16 :> 17) @@ (255 :> 254))
BusRom == Image(32768, Place(<<234, 16, 192>>, 0) @@ (16 :> 18) @@ (255 :> 253) @@ (256 :> 33))

WriteMem(address, value) ==
    /\ fault = "none"
    /\ LET m == Interconnect_write_mem(Current, address, value) IN
       /\ ic' = m.ic
       /\ fault' \in Outcomes(m)
    /\ last' = [op |-> "write_mem", address |-> address, value |-> value]
    /\ UNCHANGED <<cpu, hist, charged, clocks, calls>>

ReadMem(address) ==
    /\ fault = "none"
    /\ LET ret == Interconnect_read_mem(ic, address) IN
       /\ fault' = IF ret = Nothing THEN "panic" ELSE "none"
       /\ last' = [op |-> "read_mem", address |-> address, ret |-> ret]
    /\ UNCHANGED <<cpu, ic, hist, charged, clocks, calls>>

BusStep == clocks < MaxBusClocks /\ StepBody

InitBus ==
    /\ cpu = Cpu_new
    /\ ic = Interconnect_new(BusBoot, BusRom)
    /\ fault = "none"
    /\ last = NoCall
    /\ hist = <<>>
    /\ charged = 0
    /\ clocks = 0
    /\ calls = 0

NextBus ==
    \/ \E address \in WriteAddrs, value \in WriteVals : WriteMem(address, value)
    \/ \E address \in ReadAddrs : ReadMem(address)
    \/ BusStep

SpecBus == InitBus /\ [][NextBus]_vars

(***************************************************************************)
(* Interconnect::get_interrupt called on every content of the low six bits *)
(* of the two interrupt registers.                                         *)
(***************************************************************************)
GetInterrupt ==
    /\ fault = "none"
    /\ calls < MaxCalls
    /\ LET g == Interconnect_get_interrupt(Current) IN
       /\ ic' = g.m.ic
       /\ last' = [op |-> "get_interrupt", ret |-> g.ret,
                   flag |-> ic.interrupt_flag, enable |-> ic.interrupt_enable]
    /\ calls' = calls + 1
    /\ UNCHANGED <<cpu, fault, hist, charged, clocks>>

InitInterrupt ==
    /\ cpu = Cpu_new
    /\ \E flag \in 0..63, enable \in 0..63 :
          ic = [Interconnect_new(BlankBoot, ScenarioRom) EXCEPT
                    !.interrupt_flag = flag, !.interrupt_enable = enable]
    /\ fault = "none"
    /\ last = NoCall
    /\ hist = <<>>
    /\ charged = 0
    /\ clocks = 0
    /\ calls = 0

SpecInterrupt == InitInterrupt /\ [][GetInterrupt]_vars

(***************************************************************************)
(* Cpu::push_stack_u16 and Cpu::pop_stack_u16 called on a sample of words  *)
(* and of stack pointers, in RAM and outside it.                           *)
(***************************************************************************)
\* 0x0000, 0x0001, 0x00FF, 0x0100, 0x1234, 0x8000, 0xFF00, 0xFFFF
Words == {0, 1, 255, 256, 4660, 32768, 65280, 65535}
\* work RAM (0xC001, 0xDFFF), 0xC000 above cartridge RAM, echo RAM (0xE000,
\* 0xFDFF), high RAM (0xFFFE, 0xFF81), video RAM (0x8001), cartridge RAM
\* above video RAM (0xA000), sprite memory (0xFE01); then outside RAM:
\* 0x0000, 0x0100, 0xFF80 (0xFF7F below it), 0xFFFF, 0xFF10
StackPointers ==
    {49153, 57343, 49152, 57344, 65023, 65534, 65409, 32769, 40960, 65025,
     0, 256, 65408, 65535, 65296}

PushStackU16(value) ==
    /\ fault = "none"
    /\ calls < MaxCalls
    /\ LET m == push_stack_u16(Current, value) IN
       /\ cpu' = m.cpu
       /\ ic' = m.ic
       /\ fault' \in Outcomes(m)
    /\ last' = [op |-> "push_stack_u16", value |-> value, sp |-> cpu.reg_sp]
    /\ calls' = calls + 1
    /\ UNCHANGED <<hist, charged, clocks>>

PopStackU16 ==
    /\ fault = "none"
    /\ calls < MaxCalls
    /\ LET r == pop_stack_u16(Current) IN
       /\ cpu' = r.m.cpu
       /\ ic' = r.m.ic
       /\ fault' \in Outcomes(r.m)
       /\ last' = [op |-> "pop_stack_u16", ret |-> r.v, sp |-> cpu.reg_sp]
    /\ calls' = calls + 1
    /\ UNCHANGED <<hist, charged, clocks>>

InitStack ==
    /\ \E sp \in StackPointers : cpu = [Cpu_new EXCEPT !.reg_sp = sp]
    /\ ic = [Interconnect_new(BusBoot, BusRom) EXCEPT !.booting = FALSE]
    /\ fault = "none"
    /\ last = NoCall
    /\ hist = <<>>
    /\ charged = 0
    /\ clocks = 0
    /\ calls = 0

NextStack ==
    \/ \E value \in Words : PushStackU16(value)
    \/ PopStackU16

SpecStack == InitStack /\ [][NextStack]_vars

(***************************************************************************)
(* The decoder of instruction.rs applied to every byte.                    *)
(***************************************************************************)
Parse(byte) ==
    /\ last' = [op |-> "parse", byte |-> byte, ret |-> parse(byte)]
    /\ UNCHANGED <<cpu, ic, fault, hist, charged, clocks, calls>>

ParseCb(byte) ==
    /\ last' = [op |-> "parse_cb", byte |-> byte, ret |-> parse_cb(byte)]
    /\ UNCHANGED <<cpu, ic, fault, hist, charged, clocks, calls>>

NextDecode ==
    \/ \E byte \in Byte : Parse(byte)
    \/ \E byte \in Byte : ParseCb(byte)

SpecDecode == InitBus /\ [][NextDecode]_vars

(***************************************************************************)
(* The arithmetic arms of do_next_instrution applied to every content of   *)
(* A and B.                                                                *)
(***************************************************************************)
\* ADD A,B
AddB ==
    /\ fault = "none"
    /\ calls < MaxAluCalls
    /\ \E m \in {ADD_n(Current, 0)} :
          /\ cpu' = m.cpu
          /\ ic' = m.ic
          /\ fault' \in Outcomes(m)
    /\ last' = [op |-> "ADD_n"]
    /\ calls' = calls + 1
    /\ UNCHANGED <<hist, charged, clocks>>

Daa ==
    /\ fault = "none"
    /\ calls < MaxAluCalls
    /\ \E m \in {DAA(Current)} :
          /\ cpu' = m.cpu
          /\ ic' = m.ic
          /\ fault' \in Outcomes(m)
    /\ last' = [op |-> "DAA"]
    /\ calls' = calls + 1
    /\ UNCHANGED <<hist, charged, clocks>>

InitAlu ==
    /\ \E a \in Byte, n \in Byte : cpu = [Cpu_new EXCEPT !.reg_a = a, !.reg_b = n]
    /\ ic = Interconnect_new(BusBoot, BusRom)
    /\ fault = "none"
    /\ last = NoCall
    /\ hist = <<>>
    /\ charged = 0
    /\ clocks = 0
    /\ calls = 0

NextAlu == AddB \/ Daa

SpecAlu == InitAlu /\ [][NextAlu]_vars

(***************************************************************************)
(* The instructions that move AF through the stack, between instructions   *)
(* that set the flags.                                                     *)
(***************************************************************************)
\* PUSH BC, POP AF, PUSH AF, ADD A,B, INC A
FlagOps == {197, 241, 245, 128, 60}

FlagWords == {255, 4848, 0, 65535, 32783}

Apply(opcode) ==
    /\ fault = "none"
    /\ calls < MaxFlagCalls
    /\ \E m \in {Execute(Current, opcode, decode(opcode))} :
          /\ cpu' = m.cpu
          /\ ic' = m.ic
          /\ fault' \in Outcomes(m)
    /\ last' = [op |-> "Execute", opcode |-> opcode, af |-> af(Current)]
    /\ calls' = calls + 1
    /\ UNCHANGED <<hist, charged, clocks>>

InitFlags ==
    /\ \E value \in FlagWords : cpu = set_bc([cpu |-> [Cpu_new EXCEPT !.reg_sp = 65520]], value).cpu
    /\ ic = [Interconnect_new(BusBoot, BusRom) EXCEPT !.booting = FALSE]
    /\ fault = "none"
    /\ last = NoCall
    /\ hist = <<>>
    /\ charged = 0
    /\ clocks = 0
    /\ calls = 0

NextFlags == \E opcode \in FlagOps : Apply(opcode)

SpecFlags == InitFlags /\ [][NextFlags]_vars

(***************************************************************************)
(* Every byte written to the ROM-bank-select range.                        *)
(***************************************************************************)
\* the first and the last address of the range
BankAddrs == {CHOOSE_ROM_BANK_START, CHOOSE_ROM_BANK_END - 1}

NextBank == \E address \in BankAddrs, value \in Byte : WriteMem(address, value)

SpecBank == InitBus /\ [][NextBank]_vars

(***************************************************************************)
(* Writes to the RAM-enable range and to the cartridge RAM window.         *)
(***************************************************************************)
\* both ends of the RAM-enable range and of the cartridge RAM window
RamAddrs == {ENABLE_RAM_BANK_START, ENABLE_RAM_BANK_END - 1,
             SWITCH_RAM_BANK_START, SWITCH_RAM_BANK_END - 1}

\* 0x0A enables; 0x00, 0x01 and 0xAB do not
RamVals == {0, 1, 10, 171}

NextRam == \E address \in RamAddrs, value \in RamVals : WriteMem(address, value)

SpecRam == InitBus /\ [][NextRam]_vars

(***************************************************************************)
(* The two conversions between a 16-bit word and its bytes, applied to     *)
(* every pair of bytes and to every word; H and L hold the input.          *)
(***************************************************************************)
JoinBytes ==
    /\ calls < MaxWordCalls
    /\ last' = [op |-> "u8s_as_u16", bytes |-> <<cpu.reg_h, cpu.reg_l>>,
                ret |-> u8s_as_u16(<<cpu.reg_h, cpu.reg_l>>)]
    /\ calls' = calls + 1
    /\ UNCHANGED <<cpu, ic, fault, hist, charged, clocks>>

SplitWord ==
    /\ calls < MaxWordCalls
    /\ last' = [op |-> "u16_as_u8s", word |-> 256 * cpu.reg_h + cpu.reg_l,
                ret |-> u16_as_u8s(256 * cpu.reg_h + cpu.reg_l)]
    /\ calls' = calls + 1
    /\ UNCHANGED <<cpu, ic, fault, hist, charged, clocks>>

InitWords ==
    /\ \E h \in Byte, l \in Byte : cpu = [Cpu_new EXCEPT !.reg_h = h, !.reg_l = l]
    /\ ic = Interconnect_new(BusBoot, BusRom)
    /\ fault = "none"
    /\ last = NoCall
    /\ hist = <<>>
    /\ charged = 0
    /\ clocks = 0
    /\ calls = 0

NextWords == JoinBytes \/ SplitWord

SpecWords == InitWords /\ [][NextWords]_vars

(***************************************************************************)
(* The subtraction arms applied to every content of A and B, and DAA after *)
(* them.                                                                   *)
(***************************************************************************)
\* SUB B
SubB ==
    /\ fault = "none"
    /\ calls < MaxAluCalls
    /\ \E m \in {SUB_n(Current, 0)} :
          /\ cpu' = m.cpu
          /\ ic' = m.ic
          /\ fault' \in Outcomes(m)
    /\ last' = [op |-> "SUB_n"]
    /\ calls' = calls + 1
    /\ UNCHANGED <<hist, charged, clocks>>

\* SBC A,B
SbcB ==
    /\ fault = "none"
    /\ calls < MaxAluCalls
    /\ \E m \in {SBC_n(Current, 0)} :
          /\ cpu' = m.cpu
          /\ ic' = m.ic
          /\ fault' \in Outcomes(m)
    /\ last' = [op |-> "SBC_n"]
    /\ calls' = calls + 1
    /\ UNCHANGED <<hist, charged, clocks>>

NextSub == SubB \/ SbcB \/ Daa

SpecSub == InitAlu /\ [][NextSub]_vars

(***************************************************************************)
(* ADD SP,n applied to every operand byte, which the instruction fetches   *)
(* from work RAM at PC, and to stack pointers around every carry boundary. *)
(***************************************************************************)
StackWords ==
    {256 * h + l : h \in {0, 1, 127, 128, 254, 255},
                   l \in {0, 1, 15, 16, 127, 128, 240, 254, 255}}

AddSp ==
    /\ fault = "none"
    /\ calls < MaxAluCalls
    /\ \E m \in {ADD_SP_n(Current)} :
          /\ cpu' = m.cpu
          /\ ic' = m.ic
          /\ fault' \in Outcomes(m)
    /\ last' = [op |-> "ADD_SP_n"]
    /\ calls' = calls + 1
    /\ UNCHANGED <<hist, charged, clocks>>

InitSp ==
    /\ \E sp \in StackWords :
          cpu = [Cpu_new EXCEPT !.reg_sp = sp, !.reg_pc = INTERNAL_RAM_START]
    /\ \E n \in Byte :
          ic = [Interconnect_new(BusBoot, BusRom) EXCEPT !.internal_ram = Set(Empty, 0, n)]
    /\ fault = "none"
    /\ last = NoCall
    /\ hist = <<>>
    /\ charged = 0
    /\ clocks = 0
    /\ calls = 0

NextSp == AddSp

SpecSp == InitSp /\ [][NextSp]_vars

(***************************************************************************)
(* The increments and decrements, after an ADD A,B that leaves every       *)
(* content of the flags; HL points at a byte of work RAM.                  *)
(***************************************************************************)
\* INC r, DEC r (r = 6 is the byte at HL), INC rr, DEC rr, and ADD A,B
IncOps ==
    {4, 12, 20, 28, 36, 44, 52, 60} \cup {5, 13, 21, 29, 37, 45, 53, 61}
        \cup {3, 19, 35, 51} \cup {11, 27, 43, 59} \cup {128}

IncBytes == {0, 1, 15, 16, 128, 255}

\* one instruction, already fetched, executed by the match of
\* do_next_instrution
ApplyOpcode(opcode) ==
    /\ fault = "none"
    /\ calls < MaxIncCalls
    /\ \E m \in {Execute(Current, opcode, decode(opcode))} :
          /\ cpu' = m.cpu
          /\ ic' = m.ic
          /\ fault' \in Outcomes(m)
    /\ last' = [op |-> "Execute", opcode |-> opcode, af |-> af(Current)]
    /\ calls' = calls + 1
    /\ UNCHANGED <<hist, charged, clocks>>

InitInc ==
    /\ \E a \in IncBytes, n \in IncBytes :
          cpu = [Cpu_new EXCEPT !.reg_a = a, !.reg_b = n, !.reg_sp = 65520,
                                !.reg_h = 192, !.reg_l = 0]
    /\ \E v \in {0, 15, 255} :
          ic = [Interconnect_new(BusBoot, BusRom) EXCEPT !.internal_ram = Set(Empty, 0, v)]
    /\ fault = "none"
    /\ last = NoCall
    /\ hist = <<>>
    /\ charged = 0
    /\ clocks = 0
    /\ calls = 0

NextInc == \E opcode \in IncOps : ApplyOpcode(opcode)

SpecInc == InitInc /\ [][NextInc]_vars

(***************************************************************************)
(* The conditional branches under every content of Zero and Carry; PC      *)
(* points at the operand bytes 0x10, 0xC0 in work RAM.                      *)
(***************************************************************************)
\* JR cc,n; JP cc,nn; CALL cc,nn; RET cc for cc = NZ, Z, NC, C
BranchOps ==
    {32, 40, 48, 56} \cup {194, 202, 210, 218} \cup {196, 204, 212, 220}
        \cup {192, 200, 208, 216}

InitBranch ==
    /\ \E z \in BOOLEAN, c \in BOOLEAN :
          cpu = [Cpu_new EXCEPT !.flag_z = z, !.flag_c = c, !.reg_sp = 65520,
                                !.reg_pc = INTERNAL_RAM_START]
    /\ ic = [Interconnect_new(BusBoot, BusRom) EXCEPT
                 !.internal_ram = Place(<<16, 192>>, 0)]
    /\ fault = "none"
    /\ last = NoCall
    /\ hist = <<>>
    /\ charged = 0
    /\ clocks = 0
    /\ calls = 0

NextBranch == \E opcode \in BranchOps : ApplyOpcode(opcode)

SpecBranch == InitBranch /\ [][NextBranch]_vars

(***************************************************************************)
(* Bank-select writes and reads of the switchable ROM window, on a         *)
(* cartridge of four banks whose bytes tell the banks apart.               *)
(***************************************************************************)
\* the first and last byte of banks 1..3 are 0x11.., 0x21..; the bytes at
\* 16000, 32000 and 48000 are 0xA1, 0xA2, 0xA3
WindowRom ==
    Image(65536,
          (16384 :> 17) @@ (32768 :> 18) @@ (49152 :> 19)
          @@ (32767 :> 33) @@ (49151 :> 34) @@ (65535 :> 35)
          @@ (16000 :> 161) @@ (32000 :> 162) @@ (48000 :> 163))

WindowAddrs == {SWITCH_ROM_BANK_START, SWITCH_ROM_BANK_END - 1}

InitWindow ==
    /\ cpu = Cpu_new
    /\ ic = [Interconnect_new(BusBoot, WindowRom) EXCEPT !.booting = FALSE]
    /\ fault = "none"
    /\ last = NoCall
    /\ hist = <<>>
    /\ charged = 0
    /\ clocks = 0
    /\ calls = 0

NextWindow ==
    \/ \E address \in BankAddrs, value \in Byte : WriteMem(address, value)
    \/ \E address \in WindowAddrs : ReadMem(address)

SpecWindow == InitWindow /\ [][NextWindow]_vars

(***************************************************************************)
(* Writes and reads of the LY register at 0xFF44 interleaved with steps.   *)
(***************************************************************************)
MaxLyClocks == 8

LY_ADDR == 65348

LyStep == clocks < MaxLyClocks /\ StepBody

NextLy ==
    \/ \E value \in WriteVals : WriteMem(LY_ADDR, value)
    \/ ReadMem(LY_ADDR)
    \/ LyStep

SpecLy == InitBus /\ [][NextLy]_vars

(***************************************************************************)
(* The timer registers are written before the first step, and the machine  *)
(* is stepped from there.                                                  *)
(***************************************************************************)
MaxTimerClocks == 18

\* TIMA, TMA, TAC
TimerAddrs == {65285, 65286, 65287}
\* TAC = 5 enables the timer at its fastest clock; 255 is the TIMA value that
\* overflows at the next tick
TimerVals == {5, 171, 255}

TimerSetup ==
    /\ clocks = 0
    /\ \E address \in TimerAddrs, value \in TimerVals : WriteMem(address, value)

TimerStep == clocks < MaxTimerClocks /\ StepBody

NextTimer == TimerSetup \/ TimerStep

SpecTimer == InitBus /\ [][NextTimer]_vars

(***************************************************************************)
(* SWAP B, SWAP (HL) and SWAP A on every operand value, with every flag    *)
(* set beforehand; HL points at the first byte of work RAM.                *)
(***************************************************************************)
MaxSwapCalls == 2

\* the second byte of CB 30, CB 36, CB 37
SwapBytes == {48, 54, 55}

\* one CB instruction, its second byte already fetched, executed by the match
\* of handle_cb_opcode
Swap(byte) ==
    /\ fault = "none"
    /\ calls < MaxSwapCalls
    /\ parse_cb(byte).kind = "SWAP_n"
    /\ \E n \in {parse_cb(byte).r} : \E m \in {SWAP_n(Current, n)} :
          /\ cpu' = m.cpu
          /\ ic' = m.ic
          /\ fault' \in Outcomes(m)
          /\ last' = [op |-> "SWAP_n", n |-> n, operand |-> read_reg_r(Current, n).v,
                      result |-> read_reg_r(m, n).v]
    /\ calls' = calls + 1
    /\ UNCHANGED <<hist, charged, clocks>>

InitSwap ==
    /\ \E v \in Byte :
          /\ cpu = [Cpu_new EXCEPT !.reg_a = v, !.reg_b = v, !.reg_h = 192, !.reg_l = 0,
                                   !.flag_z = TRUE, !.flag_n = TRUE,
                                   !.flag_h = TRUE, !.flag_c = TRUE]
          /\ ic = [Interconnect_new(BusBoot, BusRom) EXCEPT
                      !.internal_ram = Set(Empty, 0, v)]
    /\ fault = "none"
    /\ last = NoCall
    /\ hist = <<>>
    /\ charged = 0
    /\ clocks = 0
    /\ calls = 0

NextSwap == \E byte \in SwapBytes : Swap(byte)

SpecSwap == InitSwap /\ [][NextSwap]_vars

(***************************************************************************)
(* LD (nn),SP on a range of stack pointers; PC points at the two operand   *)
(* bytes in work RAM, which name an address in work RAM or in high RAM.    *)
(***************************************************************************)
\* nn = 0xC010 and nn = 0xFF80, low byte first
StoreOperands == {<<16, 192>>, <<128, 255>>}

InitStore ==
    /\ \E sp \in StackWords :
          cpu = [Cpu_new EXCEPT !.reg_sp = sp, !.reg_pc = INTERNAL_RAM_START]
    /\ \E operand \in StoreOperands :
          ic = [Interconnect_new(BusBoot, BusRom) EXCEPT
                   !.internal_ram = Place(operand, 0)]
    /\ fault = "none"
    /\ last = NoCall
    /\ hist = <<>>
    /\ charged = 0
    /\ clocks = 0
    /\ calls = 0

NextStore == ApplyOpcode(8)

SpecStore == InitStore /\ [][NextStore]_vars

(***************************************************************************)
(* The run loop of main.rs calls step() for ever.  The program is a single *)
(* HALT or STOP: the CPU waits from its first step on and never writes LY, *)
(* and the picture unit runs on.  The step counters are left alone and the *)
(* frames are counted up to MaxFrames, so the run is a cycle of frames.    *)
(***************************************************************************)
MaxFrames == 2

\* HALT; STOP 0
FramePrograms == {Image(256, Place(<<118>>, 0)), Image(256, Place(<<16, 0>>, 0))}

FrameStep ==
    /\ fault = "none"
    /\ \E s \in {step(Current)}, p \in {Ppu_update(Current)} :
          /\ s.path = "instr" => Modelled(s.opcode)
          /\ cpu' = s.m.cpu
          /\ ic' = s.m.ic
          /\ fault' \in Outcomes(s.m)
          /\ last' = [op |-> "step", path |-> s.path, taken |-> s.taken,
                      vblank |-> p.vblank]
          /\ hist' = Recorded(s, ApplyLatches(s.at_dispatch))
          /\ calls' = IF p.vblank /\ calls < MaxFrames THEN calls + 1 ELSE calls
    /\ UNCHANGED <<charged, clocks>>

InitFrame ==
    /\ \E boot \in FramePrograms :
          /\ cpu = Cpu_new
          /\ ic = Interconnect_new(boot, ScenarioRom)
    /\ fault = "none"
    /\ last = NoCall
    /\ hist = <<>>
    /\ charged = 0
    /\ clocks = 0
    /\ calls = 0

NextFrame == FrameStep

\* the loop of main.rs has no exit but the closing of the window, so a step
\* that can be taken is taken
SpecFrame == InitFrame /\ [][NextFrame]_vars /\ WF_vars(FrameStep)

(***************************************************************************)
(* Properties.                                                             *)
(***************************************************************************)
\* the sources whose bit is set in both registers
Pending(flag, enable) ==
    {n \in 0..4 : (flag \div (2 ^ n)) % 2 = 1 /\ (enable \div (2 ^ n)) % 2 = 1}

\* the addresses backed by RAM: video, cartridge, work and echo RAM, sprite
\* memory (0x8000..0xFE9F) and high RAM (0xFF80..0xFFFE)
IsRam(address) == address \in 32768..65183 \/ address \in 65408..65534

\* C1: get_interrupt returns the lowest-numbered source whose bit is set in
\* both the request and the enable register, clears only that request bit and
\* leaves the enable register alone; after it returned VBlank with Timer
\* also requested and enabled (and LCDStatus not) the next call returns
\* TimerOverflow; with no such source it returns None and changes nothing.
C1_GetInterruptPriority ==
    [][last'.op = "get_interrupt" =>
          LET S == Pending(ic.interrupt_flag, ic.interrupt_enable) IN
          /\ ic'.interrupt_enable = ic.interrupt_enable
          /\ IF S = {}
             THEN last'.ret = Nothing /\ ic' = ic
             ELSE /\ last'.ret \in S
                  /\ \A n \in S : last'.ret <= n
                  /\ ic'.interrupt_flag = ic.interrupt_flag - 2 ^ (last'.ret)
          /\ (last.op = "get_interrupt" /\ last.ret = VBLANK
                /\ TimerOverflow \in S /\ LCDStatus \notin S)
             => last'.ret = TimerOverflow]_vars

\* VBlank and Timer were requested and enabled; the second call returned Timer
C1_Witness ==
    /\ calls = 2 /\ last.op = "get_interrupt" /\ last.ret = TimerOverflow
    /\ last.flag = 4 /\ last.enable = 5 /\ ic.interrupt_flag = 0

\* what C2 says of a dispatch of source i
DispatchEffect ==
    LET i == last.taken IN
    /\ (last.at.interrupt_flag \div (2 ^ i)) % 2 = 0
    /\ last.at.reg_sp = (last.pre.reg_sp - 2) % 65536
    /\ last.at.pop = last.pre.reg_pc
    /\ last.at.reg_pc = 64 + 8 * i
    /\ last.at.cpu_state = "On"

\* C2 as stated: whenever step() dispatches source i, request bit i is clear,
\* SP is 2 lower, a pop16 would return the pre-dispatch PC, PC is 0x40 + 8*i
\* and the CPU is Running.
C2_DispatchAnySP ==
    (last.op = "step" /\ last.taken # Nothing) => DispatchEffect

\* C2 amended: the same, for a dispatch whose two stack bytes (at SP and at
\* SP-1) are in RAM.
C2_DispatchOnRamStack ==
    (/\ last.op = "step" /\ last.taken # Nothing
     /\ IsRam(last.pre.reg_sp) /\ IsRam((last.pre.reg_sp - 1) % 65536))
    => DispatchEffect

\* a halted CPU with its stack in high RAM took the Joypad interrupt
C2_Witness ==
    /\ last.op = "step" /\ last.taken = Joypad
    /\ last.pre.cpu_state = "OffUntilInterrupt" /\ last.pre.reg_sp = 65534
    /\ last.at.reg_pc = 96 /\ last.at.pop = last.pre.reg_pc

\* the newest two instructions are EI, executed with IME clear, and the
\* instruction after it
FollowedEI == Len(hist) >= 2 /\ hist[2].kind = "EI" /\ ~hist[2].ime

\* no dispatch between an EI executed with IME clear and the instruction
\* after it
NoDispatchRightAfterEI ==
    ~(/\ last'.taken # Nothing
      /\ Len(hist') >= 2 /\ hist'[2].kind = "EI" /\ ~hist'[2].ime)

\* C3 as stated: after an EI executed with IME clear nothing is dispatched
\* before the following instruction has executed, and at the first boundary
\* after that instruction a requested and enabled interrupt is dispatched.
C3_EILatency ==
    [][last'.op = "step" =>
          /\ NoDispatchRightAfterEI
          /\ (/\ FollowedEI /\ cpu.cycles = 0
              /\ Pending(ic.interrupt_flag, ic.interrupt_enable) # {})
             => last'.taken \in Pending(ic.interrupt_flag, ic.interrupt_enable)]_vars

\* C3 amended: the same, unless the instruction following EI was STOP, which
\* leaves the CPU stopped.
C3_EILatencyUnlessStopped ==
    [][last'.op = "step" =>
          /\ NoDispatchRightAfterEI
          /\ (/\ FollowedEI /\ cpu.cycles = 0
              /\ hist[1].kind # "STOP"
              /\ Pending(ic.interrupt_flag, ic.interrupt_enable) # {})
             => last'.taken \in Pending(ic.interrupt_flag, ic.interrupt_enable)]_vars

\* EI with IME clear, then the write that requests the Timer interrupt, then
\* the dispatch
C3_Witness ==
    /\ last.op = "step" /\ last.taken = TimerOverflow
    /\ Len(hist) = 3 /\ hist[3].kind = "EI" /\ ~hist[3].ime
    /\ hist[2].kind = "LDH_nptr_A"

\* C4 as stated: a halted CPU with no cycles owed and a source requested and
\* enabled fetches an instruction in this step; with IME clear it does so
\* without dispatching and the request bits stay as they were.
C4_HaltWakesRegardlessOfIME ==
    (/\ last.op = "step" /\ last.pre.cpu_state = "OffUntilInterrupt"
     /\ last.pre.cycles = 0
     /\ Pending(last.pre.interrupt_flag, last.pre.interrupt_enable) # {})
    => /\ last.path = "instr"
       /\ ~last.pre.flag_ime =>
             /\ last.taken = Nothing
             /\ last.at.interrupt_flag = last.pre.interrupt_flag

\* C5: push_stack_u16(x) followed at once by pop_stack_u16() returns x and
\* leaves SP as before the push, when SP and SP-1 are in RAM.
C5_StackRoundTrip ==
    [][(/\ last.op = "push_stack_u16" /\ last'.op = "pop_stack_u16"
        /\ IsRam(last.sp) /\ IsRam((last.sp - 1) % 65536))
       => (last'.ret = last.value /\ cpu'.reg_sp = last.sp)]_vars

\* 0x1234 pushed at SP = 0xE000 (one byte in echo RAM, one in work RAM) and
\* popped again
C5_Witness ==
    /\ calls = 2 /\ last.op = "pop_stack_u16" /\ last.ret = 4660
    /\ cpu.reg_sp = 57344 /\ fault = "none"

\* C6: a read_mem of 0xE000+k right after write_mem(0xC000+k, v) returns v,
\* and a read_mem of 0xC000+k right after write_mem(0xE000+k, v) returns v,
\* for k in 0..0x1DFF.
C6_EchoAliasesWorkRam ==
    [][(/\ last.op = "write_mem" /\ last'.op = "read_mem"
        /\ \/ last.address \in 49152..56831 /\ last'.address = last.address + 8192
           \/ last.address \in 57344..65023 /\ last'.address = last.address - 8192)
       => last'.ret = last.value]_vars

\* 0xAB written at 0xC010 is read at 0xE010
C6_Witness ==
    /\ last.op = "read_mem" /\ last.address = 57360 /\ last.ret = 171
    /\ Get(ic.internal_ram, 16) = 171

\* C7: the boot flag is set at construction; while set, a read in
\* 0x0000..0x00FF returns the boot image's byte and a read above is what it
\* would be without the flag; a write to 0xFF50 clears the flag, no other
\* write does, and nothing sets it again; once clear, a read in
\* 0x0000..0x00FF returns the cartridge's byte.
C7_BootOverlay ==
    [][/\ last.op = "new" => ic.booting
       /\ ~ic.booting => ~ic'.booting
       /\ last'.op = "write_mem" =>
             /\ last'.address = BOOT_OFF_ADDR => ~ic'.booting
             /\ last'.address # BOOT_OFF_ADDR => ic'.booting = ic.booting
       /\ last'.op = "read_mem" =>
             /\ ic' = ic
             /\ (ic.booting /\ last'.address <= 255)
                => last'.ret = Get(ic.boot.data, last'.address)
             /\ (ic.booting /\ last'.address > 255)
                => last'.ret = Interconnect_read_mem([ic EXCEPT !.booting = FALSE],
                                                      last'.address)
             /\ (~ic.booting /\ last'.address <= 255)
                => last'.ret = Get(ic.rom.data, last'.address)]_vars

\* with the flag cleared the last byte of the window reads as the cartridge's
C7_Witness ==
    /\ ~ic.booting /\ last.op = "read_mem" /\ last.address = 255
    /\ last.ret = 253

\* C8 as stated: with the overlay off and NOP; JP 0x0150 at 0, two calls of
\* step() leave PC = 0x0150 with 4 + 16 cycles charged.
C8_ScenarioTwoSteps ==
    (ic.rom = ScenarioRom /\ ~ic.booting /\ clocks = 2)
    => (cpu.reg_pc = 336 /\ charged = 20)

\* C9: parse returns an instruction kind or None and parse_cb a CB
\* instruction with operands in 0..7 or None, for every byte; the same byte
\* gives the same result: what a call returned is what a call on that byte
\* returns in any later state.
C9_DecodingTotal ==
    /\ last.op = "parse" =>
          /\ last.ret \in InstructionKinds \cup {None}
          /\ last.ret = parse(last.byte)
    /\ last.op = "parse_cb" =>
          /\ \/ last.ret = NoCb
             \/ /\ last.ret.kind \in {"BIT_b_r", "RL_n", "SWAP_n"}
                /\ last.ret.b \in 0..7
                /\ last.ret.r \in 0..7
          /\ last.ret = parse_cb(last.byte)

\* RL A (CB 17) is decoded with its register operand
C9_Witness ==
    /\ last.op = "parse_cb" /\ last.byte = 23
    /\ last.ret.kind = "RL_n" /\ last.ret.r = 7

\* the primary opcodes that hardware leaves undefined
UndefinedOpcodes == {211, 219, 221, 227, 228, 235, 236, 237, 244, 252, 253}

\* C10 as stated: parse returns None exactly for the undefined opcodes.
C10_OnlyUndefinedUnrecognised ==
    last.op = "parse" => (last.ret = None <=> last.byte \in UndefinedOpcodes)

\* the ALU kinds in the order of bits 5..3 of the opcode
AluOrder ==
    <<"ADD_A_n", "ADC_A_n", "SUB_n", "SBC_A_n", "AND_n", "XOR_n", "OR_n", "CP_n">>

\* C11: parse of an opcode in 0x80..0xBF is the ALU kind that bits 5..3
\* select, whatever bits 2..0 are, and parse of the immediate opcodes 0xC6,
\* 0xCE, ..., 0xFE is the same eight kinds in the same order.
C11_AluBlockDecoding ==
    last.op = "parse" =>
       /\ last.byte \in 128..191 => last.ret = AluOrder[((last.byte - 128) \div 8) + 1]
       /\ (last.byte \in 198..254 /\ last.byte % 8 = 6)
          => last.ret = AluOrder[((last.byte - 198) \div 8) + 1]

\* XOR (HL) (0xAE) decodes to XOR_n
C11_Witness == last.op = "parse" /\ last.byte = 174 /\ last.ret = "XOR_n"

\* C12: parse of an opcode in 0x40..0x7F other than 0x76 is LD_A_n when the
\* destination is A (0x78..0x7F), LD_n_A when the source is A and the
\* destination is not (0x47, 0x4F, ..., 0x77), LD_HL_ptr_r2 for 0x70..0x75
\* and LD_r1_r2 otherwise.
C12_LoadBlockDecoding ==
    (last.op = "parse" /\ last.byte \in 64..127 /\ last.byte # 118) =>
       last.ret = IF last.byte \in 120..127 THEN "LD_A_n"
                  ELSE IF last.byte % 8 = 7 THEN "LD_n_A"
                  ELSE IF last.byte \in 112..117 THEN "LD_HL_ptr_r2"
                  ELSE "LD_r1_r2"

\* LD A,A (0x7F), which two arms of parse hold, decodes to LD_A_n
C12_Witness == last.op = "parse" /\ last.byte = 127 /\ last.ret = "LD_A_n"

\* C13: ADD A,n leaves A = (A + n) mod 256, Zero iff that is 0, Subtract
\* clear, HalfCarry iff (A mod 16) + (n mod 16) > 15 and Carry iff
\* A + n > 255, for all A and n.
C13_AddFlags ==
    [][last'.op = "ADD_n" =>
          /\ cpu'.reg_a = (cpu.reg_a + cpu.reg_b) % 256
          /\ cpu'.flag_z = (cpu'.reg_a = 0)
          /\ ~cpu'.flag_n
          /\ cpu'.flag_h = ((cpu.reg_a % 16) + (cpu.reg_b % 16) > 15)
          /\ cpu'.flag_c = (cpu.reg_a + cpu.reg_b > 255)]_vars

\* A = 0x0F, n = 0x01 gave A = 0x10 with only HalfCarry set
C13_Witness ==
    /\ calls = 1 /\ last.op = "ADD_n" /\ cpu.reg_b = 1 /\ cpu.reg_a = 16
    /\ ~cpu.flag_z /\ ~cpu.flag_n /\ cpu.flag_h /\ ~cpu.flag_c

\* C14 as stated: DAA with Subtract clear adds 0x06 iff HalfCarry is set or
\* A's low nibble exceeds 9, adds 0x60 iff Carry is set or A exceeds 0x99,
\* leaves Carry set iff 0x60 was added, Zero iff the new A is 0, and
\* HalfCarry clear.
C14_DaaAfterAddition ==
    [][(last'.op = "DAA" /\ ~cpu.flag_n) =>
          LET six == cpu.flag_h \/ cpu.reg_a % 16 > 9
              sixty == cpu.flag_c \/ cpu.reg_a > 153 IN
          /\ cpu'.reg_a = (cpu.reg_a + (IF six THEN 6 ELSE 0)
                                     + (IF sixty THEN 96 ELSE 0)) % 256
          /\ cpu'.flag_c = sixty
          /\ cpu'.flag_z = (cpu'.reg_a = 0)
          /\ ~cpu'.flag_h]_vars

\* C15: after a flag-setting instruction (ADD A,B or INC A here), whatever
\* came before it, POP AF of an arbitrary stack word included, the low four
\* bits of register F, the low byte of the AF pair that PUSH AF pushes, are 0
C15_FLowNibbleZero ==
    (last.op = "Execute" /\ last.opcode \in {128, 60}) => af(Current) % 16 = 0

\* C16: a step whose fetched opcode the decoder does not recognise leaves the
\* registers, IME, the run state and the interrupt registers as they were when
\* the fetch began (PC and SP stand for the registers here, the cycle debt
\* is left out)
C16_UnrecognisedChangesNothing ==
    (last.op = "step" /\ last.path = "instr" /\ last.kind = None) =>
        /\ cpu.reg_pc = last.at.reg_pc
        /\ cpu.reg_sp = last.at.reg_sp
        /\ cpu.cpu_state = last.at.cpu_state
        /\ ic.interrupt_flag = last.at.interrupt_flag
        /\ ic.interrupt_enable = last.at.interrupt_enable

\* the addresses that lie in no region of the address map
Unmapped == (65184..65279) \cup (65356..65407)

\* C17: every bus access to an address in no region ends in an error, reads
\* and writes alike (the write to the boot-control address 0xFF50 excepted)
C17_UnmappedAccessFails ==
    /\ (last.op = "read_mem" /\ last.address \in Unmapped) => fault = "panic"
    /\ (last.op = "write_mem" /\ last.address \in Unmapped \ {BOOT_OFF_ADDR})
           => fault = "panic"

\* C18: a read of an interrupt register that directly follows a write to it
\* returns the written value, for 0xFFFF (the enable mask) and for 0xFF0F
\* (the request flags)
C18_InterruptRegistersRoundTrip ==
    [][\A address \in {INTERRUPT_REGISTER, IF_ADDR} :
          (/\ last.op = "write_mem" /\ last.address = address
           /\ last'.op = "read_mem" /\ last'.address = address)
              => last'.ret = last.value]_vars

\* C19: a write of v to 0xFF46 copies 160 bytes: right after it, sprite
\* attribute memory byte 0xFE00+k is the byte that was readable at
\* v*0x100+k before the write, for every k in 0..159
C19_DmaTransfer ==
    [][(last'.op = "write_mem" /\ last'.address = 65350 /\ fault' = "none") =>
          \A k \in 0..159 :
              Interconnect_read_mem(ic', SPRITE_MEM_START + k)
                  = Interconnect_read_mem(ic, last'.value * 256 + k)]_vars

\* C20: after a write of any byte to the ROM-bank-select range the selected
\* bank is the low 5 bits of the written value, with 0 treated as 1, hence
\* between 1 and 31 and never 0
C20_RomBankNeverZero ==
    (last.op = "write_mem" /\ last.address \in BankAddrs) =>
        /\ ic.rom_bank_nr \in 1..31
        /\ ic.rom_bank_nr = (IF last.value % 32 = 0 THEN 1 ELSE last.value % 32)

\* C21: a write to the RAM-enable range enables cartridge RAM exactly when
\* its value is 0x0A, and while RAM is not enabled a write to 0xA000..0xBFFF
\* leaves every cartridge RAM byte unchanged
C21_RamWritableOnlyWhenEnabled ==
    [][/\ (last'.op = "write_mem" /\ last'.address >= ENABLE_RAM_BANK_START
                                  /\ last'.address < ENABLE_RAM_BANK_END)
              => ic'.ram_bank_write_enable = (last'.value = 10)
       /\ (/\ ~ic.ram_bank_write_enable
           /\ last'.op = "write_mem"
           /\ last'.address >= SWITCH_RAM_BANK_START
           /\ last'.address < SWITCH_RAM_BANK_END)
              => ic'.ram_bank = ic.ram_bank]_vars

\* C22: u8s_as_u16((h, l)) = 256*h + l, u16_as_u8s(x) = (x div 256, x mod 256),
\* and joining the bytes of a word gives the word back
C22_WordBytesInverse ==
    /\ last.op = "u8s_as_u16" =>
          /\ last.ret = 256 * last.bytes[1] + last.bytes[2]
          /\ u16_as_u8s(last.ret) = last.bytes
    /\ last.op = "u16_as_u8s" =>
          /\ last.ret = <<last.word \div 256, last.word % 256>>
          /\ u8s_as_u16(last.ret) = last.word

\* the first assertion of test_u16_as_u8s
C22_Witness ==
    last.op = "u16_as_u8s" /\ last.word = 4660 /\ last.ret = <<18, 52>>

\* C23: SBC A,B stores (A - B - Carry) mod 256 in A, sets Zero iff that
\* new A is 0, sets Subtract, and sets Carry iff A < B + Carry
C23_SbcStoresResult ==
    [][last'.op = "SBC_n" =>
          LET c == IF cpu.flag_c THEN 1 ELSE 0 IN
          /\ cpu'.reg_a = (cpu.reg_a - cpu.reg_b - c) % 256
          /\ cpu'.flag_z = (cpu'.reg_a = 0)
          /\ cpu'.flag_n
          /\ cpu'.flag_c = (cpu.reg_a < cpu.reg_b + c)]_vars

\* C24: with Subtract set, DAA subtracts 0x06 iff HalfCarry is set and 0x60
\* iff Carry is set, modulo 256, and so leaves A unchanged when both are
\* clear
C24_DaaAfterSubtraction ==
    [][(last'.op = "DAA" /\ cpu.flag_n) =>
          cpu'.reg_a = (cpu.reg_a - (IF cpu.flag_h THEN 6 ELSE 0)
                                  - (IF cpu.flag_c THEN 96 ELSE 0)) % 256]_vars

\* bits 7, 6, 5, 4 of a flags byte built from Zero, Subtract, HalfCarry, Carry
FlagBits(c) ==
    (IF c.flag_z THEN 8 ELSE 0) + (IF c.flag_n THEN 4 ELSE 0)
        + (IF c.flag_h THEN 2 ELSE 0) + (IF c.flag_c THEN 1 ELSE 0)

\* C25: the low byte pushed by PUSH AF carries the four flags in bits 7..4,
\* and after POP AF the four flags (and so the conditions check_cc tests) are
\* bits 7..4 of the popped low byte
C25_AFViewOfFlags ==
    /\ (last.op = "Execute" /\ last.opcode = 245)
           => (last.af % 256) \div 16 = FlagBits(cpu)
    /\ (last.op = "Execute" /\ last.opcode = 241)
           => FlagBits(cpu) = (af(Current) % 256) \div 16

\* C26: ADD SP,n with s the operand byte n read as a signed byte: the step
\* ends without fault, SP becomes (SP + s) mod 65536, Zero and Subtract are
\* cleared, HalfCarry is set iff (SP mod 16) + (n mod 16) > 15 and Carry iff
\* (SP mod 256) + n > 255
C26_AddSpSigned ==
    [][last'.op = "ADD_SP_n" =>
          LET n == Interconnect_read_mem(ic, cpu.reg_pc)
              s == IF n >= 128 THEN n - 256 ELSE n IN
          /\ fault' = "none"
          /\ cpu'.reg_sp = (cpu.reg_sp + s) % 65536
          /\ ~cpu'.flag_z
          /\ ~cpu'.flag_n
          /\ cpu'.flag_h = ((cpu.reg_sp % 16) + (n % 16) > 15)
          /\ cpu'.flag_c = ((cpu.reg_sp % 256) + n > 255)]_vars

\* C27: INC r and DEC r, the byte at HL included, leave Carry as it was, and
\* INC rr and DEC rr leave Zero, Subtract, HalfCarry and Carry as they were
C27_IncDecFrame ==
    [][/\ (last'.op = "Execute"
             /\ last'.opcode \in {4, 12, 20, 28, 36, 44, 52, 60,
                                  5, 13, 21, 29, 37, 45, 53, 61})
           => cpu'.flag_c = cpu.flag_c
       /\ (last'.op = "Execute" /\ last'.opcode \in {3, 19, 35, 51, 11, 27, 43, 59})
           => FlagBits(cpu') = FlagBits(cpu)]_vars

\* DEC (HL) of the byte 0x00 with Carry set by the ADD before it: the byte
\* wraps to 0xFF and Carry is still set
C27_Witness ==
    /\ last.op = "Execute" /\ last.opcode = 53
    /\ Interconnect_read_mem(ic, 49152) = 255
    /\ cpu.flag_c /\ cpu.flag_n /\ cpu.flag_h /\ ~cpu.flag_z

\* the cycles the instruction opcode charges when executed from m
Cost(m, opcode) == Execute(m, opcode, decode(opcode)).cpu.cycles - m.cpu.cycles

\* the same machine with Zero and Carry inverted, so that every condition
\* code that holds in m fails
OtherWay(m) == [m EXCEPT !.cpu.flag_z = ~@, !.cpu.flag_c = ~@]

\* C28: a conditional branch whose condition holds charges strictly more
\* cycles than the same instruction charges when its condition does not hold
C28_TakenCostsMore ==
    [][(/\ last'.op = "Execute"
        /\ last'.opcode \in BranchOps
        /\ check_cc(Current, decode(last'.opcode).a))
          => cpu'.cycles - cpu.cycles > Cost(OtherWay(Current), last'.opcode)]_vars

\* C29: a step that dispatches an interrupt has charged exactly 20 cycles
\* for the dispatch when the fetch of the handler's first instruction begins
C29_DispatchCharges20 ==
    (last.op = "step" /\ last.taken # Nothing)
        => last.at.cycles - last.pre.cycles = 20

\* C30: in a step that dispatches an interrupt, the first instruction of the
\* handler, which the same step fetches, executes with IME clear
C30_DispatchClearsIME ==
    (last.op = "step" /\ last.taken # Nothing /\ last.path = "instr")
        => ~hist[1].ime

\* interrupts are off and no EI is waiting to turn them on
Quiet(c) == ~c.flag_ime /\ ~c.flag_enabling_interrupts

\* C31: once the instruction following DI has executed, and it is not EI or
\* RETI, IME is false; from then on every step that does not execute EI or
\* RETI leaves IME false and dispatches nothing.  So after DI a dispatch is
\* possible only at the one boundary between DI and the instruction after it.
C31_DILatency ==
    [][last'.op = "step" =>
          /\ (/\ last'.path = "instr"
              /\ Len(hist') >= 2 /\ hist'[2].kind = "DI"
              /\ hist'[1].kind \notin {"EI", "RETI"})
             => Quiet(cpu')
          /\ (/\ Quiet(cpu)
              /\ ~(last'.path = "instr" /\ last'.kind \in {"EI", "RETI"}))
             => (Quiet(cpu') /\ last'.taken = Nothing)]_vars

\* DI was executed with IME set, the instruction after it requested an
\* interrupt that is enabled, a NOP followed, and nothing was dispatched
C31_Witness ==
    /\ last.op = "step" /\ last.path = "instr" /\ last.taken = Nothing
    /\ Len(hist) = 3 /\ hist[3].kind = "DI" /\ hist[3].ime
    /\ hist[2].kind = "LDH_nptr_A" /\ hist[1].kind = "NOP"
    /\ Pending(ic.interrupt_flag, ic.interrupt_enable) # {}
    /\ ~cpu.flag_ime

\* C32: STOP leaves the CPU in OffUntilButtonPress with bit 7 of the LCD
\* control register clear; a stopped CPU fetches nothing while no Joypad
\* interrupt is requested and enabled; and a stopped CPU that owes no cycles
\* is Running after a step entered with the Joypad interrupt requested and
\* enabled
C32_StopUntilButtonPress ==
    [][last'.op = "step" =>
          /\ (last'.path = "instr" /\ last'.kind = "STOP")
                => /\ cpu'.cpu_state = "OffUntilButtonPress"
                   /\ ic'.ppu.LCD_control < 128
          /\ (/\ cpu.cpu_state = "OffUntilButtonPress"
              /\ Joypad \notin Pending(ic.interrupt_flag, ic.interrupt_enable))
                => last'.path # "instr"
          /\ (/\ cpu.cpu_state = "OffUntilButtonPress"
              /\ ~(cpu.cycles > 0)
              /\ Joypad \in Pending(ic.interrupt_flag, ic.interrupt_enable))
                => cpu'.cpu_state = "On"]_vars

C34_SwitchableRomWindow ==
    (/\ last.op = "read_mem" /\ last.address \in WindowAddrs
     /\ ~ic.booting /\ ic.rom_bank_nr \in 1..31)
        => /\ last.ret = ImageGet(ic.rom, ic.rom_bank_nr * 16384
                                          + (last.address - 16384))
           /\ last.ret = Cartridge_read_mem(ic.rom, ic.rom_bank_nr, last.address)

\* C35: the value read at 0xFF44 and the line counter are in 0..153 in every
\* reachable state, and a write to 0xFF44 resets the line counter to 0
C35_LyRange ==
    /\ ic.ppu.ly \in 0..153
    /\ (last.op = "read_mem" /\ last.address = LY_ADDR) => last.ret \in 0..153
    /\ (last.op = "write_mem" /\ last.address = LY_ADDR) => ic.ppu.ly = 0

\* C36: with the timer enabled, steps advance TIMA, and a TIMA that overflows
\* is reloaded from TMA with bit 2 of the interrupt request register set.  With
\* TAC = 5 Timer::update ticks TIMA at its 16th call, so after 16 to 18 steps
\* TIMA is 1 (started from 0) or TMA with the request bit set (started from 255)
C36_TimerReachesCpu ==
    (ic.timer.tac = 5 /\ clocks >= 16)
        => \/ ic.timer.tima = 1
           \/ ic.timer.tima = ic.timer.tma /\ check_bit(ic.interrupt_flag, 2)

\* C37 as stated: the cycle accumulator is a non-negative multiple of 4 in
\* every reachable state, and it is 0 when step() dispatches an interrupt and
\* when it fetches an opcode
C37_CyclesZeroAtFetch ==
    /\ cpu.cycles >= 0 /\ cpu.cycles % 4 = 0
    /\ (last.op = "step" /\ last.taken # Nothing) => last.pre.cycles = 0
    /\ (last.op = "step" /\ last.path = "instr") => last.at.cycles = 0

\* C37 amended: the accumulator is a non-negative multiple of 4 in every
\* reachable state and is 0 at the start of every step that dispatches or
\* fetches; at the fetch itself it is 0 unless the same step dispatched an
\* interrupt, and then it is the 8 cycles the push of PC charged
C37_CyclesZeroAtBoundary ==
    /\ cpu.cycles >= 0 /\ cpu.cycles % 4 = 0
    /\ (last.op = "step" /\ last.taken # Nothing)
          => last.pre.cycles = 0 /\ last.path = "instr"
    /\ (last.op = "step" /\ last.path = "instr")
          => /\ last.pre.cycles = 0
             /\ last.at.cycles = IF last.taken = Nothing THEN 0 ELSE 8

\* a step dispatched the Timer interrupt with no debt and fetched the opcode
\* at the vector with the 8 cycles of the push outstanding
C37_Witness ==
    /\ last.op = "step" /\ last.path = "instr" /\ last.taken = TimerOverflow
    /\ last.pre.cycles = 0 /\ last.at.cycles = 8 /\ last.at.reg_pc = 80
    /\ cpu.cycles > 8

\* C38: SWAP writes back the operand with its two nibbles exchanged, sets
\* Zero iff that result is 0 and clears Subtract, HalfCarry and Carry
C38_SwapNibbles ==
    last.op = "SWAP_n"
        => /\ last.result = (last.operand % 16) * 16 + last.operand \div 16
           /\ cpu.flag_z = (last.result = 0)
           /\ ~cpu.flag_n /\ ~cpu.flag_h /\ ~cpu.flag_c

\* C39: LD (nn),SP leaves SP unchanged and stores it: afterwards the byte at
\* nn is the low byte of SP and the byte at nn+1 is its high byte
C39_StoreSP ==
    [][(last'.op = "Execute" /\ last'.opcode = 8) =>
          LET nn == u8s_as_u16(read_nn(Current).v) IN
          /\ cpu'.reg_sp = cpu.reg_sp
          /\ Interconnect_read_mem(ic', nn) = cpu.reg_sp % 256
          /\ Interconnect_read_mem(ic', (nn + 1) % 65536) = cpu.reg_sp \div 256]_vars

\* the mode and the line agree, and the picture unit moves only along
\* OAMSearch, PixelTransfer, HBlank on lines 0..143 and VBlank on 144..153
FrameOrder ==
    LET p == ic.ppu
        q == ic'.ppu IN
    /\ q.state \in {"OAMSearch", "PixelTransfer", "HBlank"} => q.ly \in 0..143
    /\ q.state = "VBlank" => q.ly \in 144..153
    /\ (p.state # q.state \/ p.ly # q.ly) =>
          \/ p.state = "OAMSearch" /\ q.state = "PixelTransfer" /\ q.ly = p.ly
          \/ p.state = "PixelTransfer" /\ q.state = "HBlank" /\ q.ly = p.ly
          \/ p.state = "HBlank" /\ q.state = "OAMSearch" /\ q.ly = p.ly + 1
          \/ p.state = "HBlank" /\ q.state = "VBlank" /\ p.ly = 143 /\ q.ly = 144
          \/ p.state = "VBlank" /\ q.state = "VBlank" /\ q.ly = p.ly + 1
          \/ p.state = "VBlank" /\ q.state = "OAMSearch" /\ p.ly = 153 /\ q.ly = 0

\* the picture unit requests VBlank in the step that moves the line from 144
\* to 145 and in no other; the request bit is then set, or already taken by the
\* dispatch of the same step, and no other step sets it
OncePerFrame ==
    /\ last'.vblank <=> (ic.ppu.ly = 144 /\ ic'.ppu.ly = 145)
    /\ last'.vblank => (check_bit(ic'.interrupt_flag, 0) \/ last'.taken = VBLANK)
    /\ (~last'.vblank /\ check_bit(ic'.interrupt_flag, 0))
          => check_bit(ic.interrupt_flag, 0)

=============================================================================
